---------------------------- MODULE Spec2Model ----------------------------
(***************************************************************************)
(* A model of the Python layer of goupil (src/python.rs,                   *)
(* src/python/transport.rs, src/python/geometry.rs, src/python/numpy.rs):  *)
(* the transport settings and their setters, the transport engine          *)
(* (compile, pickling, the transport batch), the generic locate and trace  *)
(* batches, the external geometry and its mutators, the topography         *)
(* surfaces and their operators, the constructor of the stratified         *)
(* geometry, and the item access of the array wrappers.                    *)
(*                                                                         *)
(* Floats are modelled by integers, rounded to a short significand where   *)
(* rounding matters; Option<T> by None and Some(x).                        *)
(***************************************************************************)
EXTENDS Integers, Sequences, FiniteSets, TLC

VARIABLES
    settings,        \* engine.settings: PyTransportSettings {inner, volume_sources}
    compiled,        \* engine.compiled
    geometry,        \* engine.geometry: Option of a geometry definition
    random,          \* engine.random: state of the random stream
    registered,      \* engine.registry: the materials added to it
    tables,          \* engine.registry: the configurations compute() was called with
    pickle,          \* bytes returned by the last __getstate__, held by the host
    pc,              \* position of the running batch call
    definition,      \* locate: the geometry definition the batch runs on
    states,          \* the states array of the running call (shared with the host)
    input,           \* the states array as it was when the call started
    writeable,       \* WRITEABLE flag of the states array
    constraints,     \* transport: the sources_energies argument
    local_settings,  \* transport_with: the local clone of the settings
    status,          \* transport_with: the local status array
    sectors,         \* locate: the local sectors array
    i,               \* loop index of the running batch
    result,          \* what the last call returned to the host
    ctrlc,           \* a SIGINT is pending (PyErr_CheckSignals would return -1)
    raised_at,       \* loop index at which the host raised ctrlc in this batch
    calls,           \* the calls made to agent.transport in this batch
    polls,           \* the loop indices at which ctrlc_catched was called
    writes,          \* transport: how often each entry of states and status was set
    lengths,         \* trace: the lengths argument
    density,         \* trace: the density argument
    tracer,          \* trace: the tracer (position, direction, sector)
    length,          \* trace: the remaining length of the current state
    grammages,       \* trace: the accumulator of the current state
    k_poll,          \* trace: the iteration counter k of the poll
    matrix,          \* trace: the result array
    supplied,        \* trace: the length the current state started with
    taken,           \* trace: the sum of the steps of the current state
    asked,           \* trace: the last call of tracer.trace (max_length, step)
    at_poll,         \* trace: the loop state at the last poll of the current state
    all_zero,        \* trace: every step since that poll had length zero
    unpolled,        \* trace: the calls of tracer.trace since the last poll
    stepped,         \* trace: the steps of the current state, summed by the sector
                     \* the tracer reported before each step
    external,        \* an ExternalGeometry object and its exported view
    surface,         \* a TopographySurface (or TopographyMap) object
    derived,         \* the result of the last operator applied to surface
    stratified,      \* a StratifiedGeometry constructor call
    pickled,         \* the engine fields as they were at the last __getstate__
    loaded,          \* the last __setstate__: what it did to the engine
    ndarray,         \* a numpy array: shape, strides, flags and the memory it views
    accessed,        \* the last get or set on ndarray
    started          \* transport: the engine's settings when the batch started, and
                     \* as the host has left them since

\* The variables of a trace call.
trace_vars == <<lengths, density, tracer, length, grammages, k_poll, matrix, supplied,
                taken, asked, at_poll, all_zero, unpolled, stepped>>

\* The geometry objects held by the host, and the record of its pickling
\* calls.
host_objects == <<external, surface, derived, stratified, pickled>>
object_vars == <<host_objects, loaded, ndarray, accessed, started>>

vars == <<settings, compiled, geometry, random, registered, tables, pickle, pc, definition,
          states, input, writeable, constraints, local_settings, status,
          sectors, i, result, ctrlc, raised_at, calls, polls, writes,
          trace_vars, object_vars>>

engine_vars == <<settings, compiled, geometry, random, registered, tables>>

\* Option<T>.
None == <<>>

Some(x) == <<x>>

\* The unit value ().
Unit == <<>>

-----------------------------------------------------------------------------
(* Bounds of the model.                                                    *)

\* Largest batch of the small transport batches.
MaxStates == 3

\* Largest batch of locate.
MaxLocate == 2

\* Size of the long batch of the cancellation specification: it holds the
\* polls at the indices 0 and 100 and photons after the second poll.
LongBatch == 102

\* Largest seed of the random stream; the stream has MaxSeed + 1 states.
MaxSeed == 1

\* Largest source energy and largest photon energy.
MaxEnergy == 2

\* Largest height of an interface of a stratified geometry.
MaxHeight == 2

\* Largest number of sectors of a stratified geometry.
MaxSectors == 2

\* Largest batch of trace.
MaxTrace == 2

\* Largest length supplied to trace.
MaxLength == 2

\* Largest extent of an axis of an array.
MaxDim == 2

\* Number of bits of the significand of a Float, and its largest exponent: the
\* finite floats are the integers m * 2^e with |m| < 2^Precision and
\* 0 <= e <= MaxExponent.
Precision == 3

MaxExponent == 2

-----------------------------------------------------------------------------
(* Program constants.                                                      *)

\* transport_with polls ctrlc_catched when i % 100 == 0.
TransportPeriod == 100

\* locate polls ctrlc_catched when i % 1000 == 0.
LocatePeriod == 1000

\* trace polls ctrlc_catched when its counter k reaches 1000.
TracePeriod == 1000

-----------------------------------------------------------------------------
(* Results of a call.                                                      *)

Ok(v) == [kind |-> "Ok", value |-> v]

Err(e) == [kind |-> "Err", value |-> e]

-----------------------------------------------------------------------------
(* Float: rounded arithmetic.                                              *)

\* Float::INFINITY: beyond every finite float.
INFINITY == 2^(Precision + MaxExponent)

\* The spacing of the floats around the magnitude a.
RECURSIVE ulp(_, _)
ulp(a, u) == IF a < (2^Precision) * u THEN u ELSE ulp(a, 2 * u)

\* The magnitude a rounded to the nearest float, ties to the even significand.
round_even(a) ==
    LET u == ulp(a, 1)
        q == a \div u
        r == a % u
    IN  IF 2 * r < u THEN q * u
        ELSE IF 2 * r > u THEN (q + 1) * u
        ELSE IF q % 2 = 0 THEN q * u
        ELSE (q + 1) * u

\* The float nearest to the real x, INFINITY on overflow.
fl(x) ==
    LET a == IF x < 0 THEN 0 - x ELSE x
        m == IF a >= INFINITY THEN INFINITY ELSE round_even(a)
        c == IF m >= INFINITY THEN INFINITY ELSE m
    IN  IF x < 0 THEN 0 - c ELSE c

\* a + b and a - b on floats (an infinite operand wins; infinities of opposite
\* signs are never added in this model).
fadd(a, b) ==
    IF a = INFINITY \/ b = INFINITY THEN INFINITY
    ELSE IF a = 0 - INFINITY \/ b = 0 - INFINITY THEN 0 - INFINITY
    ELSE fl(a + b)

fsub(a, b) == fadd(a, 0 - b)

\* a * b on floats (zero is never multiplied by an infinity in this model).
fmul(a, b) ==
    IF a = 0 \/ b = 0 THEN 0
    ELSE IF a \in {INFINITY, 0 - INFINITY} \/ b \in {INFINITY, 0 - INFINITY}
    THEN IF (a < 0) = (b < 0) THEN INFINITY ELSE 0 - INFINITY
    ELSE fl(a * b)

\* min on floats.
fmin(a, b) == IF a <= b THEN a ELSE b

-----------------------------------------------------------------------------
(* Transport settings.                                                     *)

TransportModes == {"Forward", "Backward"}

ComptonModes == {"Adjoint", "Direct", "Inverse", "None"}

ComptonMethods == {"InverseTransform", "RejectionSampling"}

ComptonModels == {"KleinNishina", "Penelope", "ScatteringFunction"}

AbsorptionModes == {"Continuous", "Discrete", "None"}

\* The strings a host may pass to a setter: the enumerators and a string that
\* names none.
ModeArgs == TransportModes \cup {"Bogus"}

ComptonModeArgs == {None} \cup {Some(m) : m \in ComptonModes \cup {"Bogus"}}

ComptonMethodArgs == ComptonMethods \cup {"Bogus"}

ComptonModelArgs == ComptonModels \cup {"Bogus"}

AbsorptionArgs == {None} \cup {Some(m) : m \in AbsorptionModes \cup {"Bogus"}}

\* <T>::try_from(&str): the enumerator of that name, or an error.
try_from(type, value) == IF value \in type THEN Ok(value) ELSE Err("ValueError")

\* TransportSettings::default().
DefaultSettings ==
    [mode |-> "Forward", compton_mode |-> "Direct",
     compton_method |-> "RejectionSampling", compton_model |-> "ScatteringFunction",
     absorption |-> "Discrete", constraint |-> None]

\* impl Into<PyTransportSettings> for TransportSettings.
into_PyTransportSettings(inner) ==
    [inner |-> inner,
     volume_sources |-> IF inner.constraint = None THEN FALSE ELSE TRUE]

\* PyTransportSettings::new().
new_settings ==
    [inner |-> [DefaultSettings EXCEPT !.constraint = Some(1)],
     volume_sources |-> TRUE]

\* A setter returns the settings after the call and the call's result.
Ret(s, r) == [self |-> s, result |-> r]

\* (set_mode without the coercion of the Compton mode.)
set_mode_uncoerced(self, value) ==
    LET mode == try_from(TransportModes, value) IN
    IF mode.kind = "Err" THEN Ret(self, mode)
    ELSE Ret([self EXCEPT !.inner.mode = mode.value], Ok(Unit))

\* PyTransportSettings::set_mode.
set_mode(self, value) ==
    LET mode == try_from(TransportModes, value) IN
    IF mode.kind = "Err" THEN Ret(self, mode)
    ELSE LET s1 == [self EXCEPT !.inner.mode = mode.value]
             s2 == CASE s1.inner.mode = "Backward" /\ s1.inner.compton_mode = "Direct" ->
                           [s1 EXCEPT !.inner.compton_mode = "Adjoint"]
                     [] s1.inner.mode = "Forward"
                          /\ s1.inner.compton_mode \in {"Adjoint", "Inverse"} ->
                           [s1 EXCEPT !.inner.compton_mode = "Direct"]
                     [] OTHER -> s1
         IN  Ret(s2, Ok(Unit))

\* PyTransportSettings::set_compton_method.
set_compton_method(self, value) ==
    LET method == try_from(ComptonMethods, value) IN
    IF method.kind = "Err" THEN Ret(self, method)
    ELSE Ret([self EXCEPT !.inner.compton_method = method.value], Ok(Unit))

\* PyTransportSettings::set_compton_model.
set_compton_model(self, value) ==
    LET model == try_from(ComptonModels, value) IN
    IF model.kind = "Err" THEN Ret(self, model)
    ELSE Ret([self EXCEPT !.inner.compton_model = model.value], Ok(Unit))

\* (from_optstr! taking a string that names no enumerator for None.)
from_optstr_lenient(type, value) ==
    IF value = None \/ value[1] \notin type THEN Ok("None") ELSE Ok(value[1])

\* from_optstr!: None gives the enumerator None, a string is parsed.
from_optstr(type, value) ==
    IF value = None THEN Ok("None") ELSE try_from(type, value[1])

\* PyTransportSettings::set_absorption.
set_absorption(self, value) ==
    LET mode == from_optstr(AbsorptionModes, value) IN
    IF mode.kind = "Err" THEN Ret(self, mode)
    ELSE Ret([self EXCEPT !.inner.absorption = mode.value], Ok(Unit))

\* PyTransportSettings::set_compton_mode.
set_compton_mode(self, value) ==
    LET mode == from_optstr(ComptonModes, value) IN
    IF mode.kind = "Err" THEN Ret(self, mode)
    ELSE LET s1 == [self EXCEPT !.inner.compton_mode = mode.value]
             s2 == CASE mode.value = "Adjoint" -> [s1 EXCEPT !.inner.mode = "Backward"]
                     [] mode.value = "Direct" -> [s1 EXCEPT !.inner.mode = "Forward"]
                     [] mode.value = "Inverse" ->
                           [s1 EXCEPT !.inner.mode = "Backward",
                                      !.inner.compton_method = "InverseTransform"]
                     [] OTHER -> s1
         IN  Ret(s2, Ok(Unit))

\* (set_volume_sources without the update of the constraint.)
set_volume_sources_flag_only(self, value) ==
    LET v == IF value = None THEN FALSE ELSE value[1] IN
    Ret([self EXCEPT !.volume_sources = v], Ok(Unit))

\* PyTransportSettings::set_volume_sources; value is an Option<bool>.
set_volume_sources(self, value) ==
    LET v == IF value = None THEN FALSE ELSE value[1] IN
    Ret([self EXCEPT !.volume_sources = v,
                     !.inner.constraint = IF v THEN Some(1) ELSE None],
        Ok(Unit))

-----------------------------------------------------------------------------
(* Photon states and batch arguments.                                      *)

\* A photon state (CState), in one dimension: the position and the direction
\* are those along the vertical axis.
Photon(e, z, u) == [energy |-> e, position |-> z, direction |-> u, length |-> 0]

Energies == 1..MaxEnergy

\* The states arrays of a small transport batch.
\* The states array of a transport batch of size n: photons of every energy.
Batch(n) == [k \in 1..n |-> Photon(1 + (k % MaxEnergy), 0, 1)]

\* The states arrays of a small transport batch.
SmallBatches == {Batch(n) : n \in 0..MaxStates}

\* The states array of the long transport batch.
LongBatches == {Batch(LongBatch)}

\* ArrayOrFloat.
Float(x) == [tag |-> "Float", scalar |-> x]

Array(a) == [tag |-> "Array", array |-> a]

\* ArrayOrFloat::size.
size(a) == IF a.tag = "Float" THEN 1 ELSE Len(a.array)

\* The sources_energies arguments tried with a states array of size n: none,
\* a scalar, an array of the same size, an array of another size.
SourcesEnergies(n) ==
    {None}
        \cup {Some(Float(e)) : e \in Energies}
        \cup {Some(Array([k \in 1..m |-> 1 + ((k + 1) % MaxEnergy)])) :
                  m \in {n, n + 1}}

\* PyArray::<T>::empty: the entries are not initialised (fill stands for the
\* bytes the allocation holds).
empty(n, fill) == [k \in 1..n |-> fill]

\* What stands for an entry that was never written: of a status array, of a
\* sectors array.
NoStatus == 0 - 1

NoSector == 0 - 1

-----------------------------------------------------------------------------
(* The collaborators of the Python layer.                                  *)

\* TransportStatus, in the order of PyTransportStatus.
TransportStatuses ==
    <<"Absorbed", "Boundary", "EnergyConstraint", "EnergyMax", "EnergyMin",
      "Exit", "LengthMax">>

\* From<TransportStatus> for i32 and TryFrom<i32> for TransportStatus: the
\* code of a status is its rank in the enumeration.
into_i32(flag) == (CHOOSE j \in 1..Len(TransportStatuses) : TransportStatuses[j] = flag) - 1

try_into(n) ==
    IF n \in 0..(Len(TransportStatuses) - 1) THEN Ok(TransportStatuses[n + 1])
    ELSE Err("ValueError")

\* The geometries an engine is given.
SimpleGeometry == [kind |-> "Simple", interfaces |-> <<None, None>>]

\* A stratified geometry: its interfaces from top to bottom, each bounded by a
\* (flat) surface or unbounded; sector k lies between the interfaces k and
\* k + 1, and the heights do not increase.
StratifiedGeometry(interfaces) == [kind |-> "Stratified", interfaces |-> interfaces]

Heights == {Some(h) : h \in 0..MaxHeight}

NonIncreasing(s) ==
    \A j, k \in 1..Len(s) : (j < k /\ s[j] # None /\ s[k] # None) => s[j][1] >= s[k][1]

Interfaces ==
    UNION {{s \in [1..(n + 1) -> Heights \cup {None}] :
                /\ \A k \in 2..n : s[k] # None
                /\ NonIncreasing(s)} : n \in 1..MaxSectors}

\* The geometry definitions locate runs on.
Geometries == {SimpleGeometry} \cup {StratifiedGeometry(s) : s \in Interfaces}

\* GeometryDefinition::sectors().len().
num_sectors(g) == Len(g.interfaces) - 1

\* The position z lies in sector k (counted from 0): below the interface
\* above it, and at or above the interface below it.
InSector(g, k, z) ==
    /\ g.interfaces[k + 1] = None \/ z < g.interfaces[k + 1][1]
    /\ g.interfaces[k + 2] = None \/ z >= g.interfaces[k + 2][1]

\* GeometryTracer::reset then sector(): the sector of the position, or None
\* outside of the geometry; an error when the direction is not a unit vector.
tracer_reset(g, position, direction) ==
    IF direction \notin {-1, 1} THEN Err("ValueError")
    ELSE LET inside == {k \in 0..(num_sectors(g) - 1) : InSector(g, k, position)}
         IN  IF inside = {} THEN Ok(None)
             ELSE Ok(Some(CHOOSE k \in inside : \A j \in inside : k <= j))

\* MaterialRegistry::compute: the tables of a configuration, identified by the
\* transport mode and the Compton mode of the settings it is called with.
TableKey(s) == <<s.mode, s.compton_mode>>

\* TransportAgent::transport, the state it leaves the photon in: the photon
\* has moved, and a constrained walk ends at the constraint's energy.
agent_state(s, state) ==
    [state EXCEPT !.length = @ + 1,
                  !.energy = IF s.constraint = None THEN @ ELSE s.constraint[1]]

\* TransportAgent::transport, the status it returns: decided by the random
\* stream.
agent_status(s, rng) == TransportStatuses[(rng % Len(TransportStatuses)) + 1]

\* The random stream after one photon.
next_random(rng) == (rng + 1) % (MaxSeed + 1)

\* ctrlc_catched: an error when a signal is pending.
ctrlc_catched(pending) == IF pending THEN Err("KeyboardInterrupt") ELSE Ok(Unit)

-----------------------------------------------------------------------------
(* PyTransportEngine::compile.                                             *)

CompileModeArgs == {None} \cup {Some(m) : m \in {"All", "Backward", "Both", "Forward", "Bogus"}}

\* The CompileMode of the argument (lines 399-414).
compile_mode(inner, mode) ==
    IF mode = None THEN Ok(inner.mode)
    ELSE IF mode[1] \in {"All", "Backward", "Both", "Forward"} THEN Ok(mode[1])
    ELSE Err("ValueError")

\* (forward_settings that keeps the Compton mode of the engine.)
forward_settings_as_set(inner) == [inner EXCEPT !.mode = "Forward"]

\* The settings of the forward compute call (lines 451-457).
forward_settings(inner) ==
    [inner EXCEPT !.mode = "Forward",
                  !.compton_mode = IF @ \in {"Adjoint", "Inverse"} THEN "Direct" ELSE @]

\* The settings of the backward compute call (lines 464-473).
backward_settings(inner) ==
    LET s1 == [inner EXCEPT !.mode = "Backward",
                            !.compton_mode = IF @ = "Direct" THEN "Adjoint" ELSE @]
    IN  IF s1.compton_mode = "Inverse"
        THEN [s1 EXCEPT !.compton_method = "InverseTransform"]
        ELSE s1

\* The settings of the inverse compute call (lines 480-484).
inverse_settings(inner) ==
    [inner EXCEPT !.mode = "Backward", !.compton_mode = "Inverse",
                  !.compton_method = "InverseTransform"]

\* The settings compile passes to registry.compute, for a CompileMode.
computed_settings(inner, cmode) ==
    (IF cmode \in {"All", "Both", "Forward"} THEN {forward_settings(inner)} ELSE {})
        \cup (IF cmode \in {"All", "Both", "Backward"}
              THEN {backward_settings(inner)} ELSE {})
        \cup (IF cmode = "All" THEN {inverse_settings(inner)} ELSE {})

\* The materials of a definition, named by the sector that holds them.
materials(g) == 1..(Len(g.interfaces) - 1)

\* MaterialRegistry::add: a material that is registered already, with the same
\* definition, is left as it is.
add(reg, material) == reg \cup {material}

\* update_with (lines 549-557): the materials of the geometry are added to the
\* registry.
update_with(g, reg) ==
    IF g = None THEN reg ELSE reg \cup UNION {add(reg, m) : m \in materials(g[1])}

\* What compile leaves behind it: its result, the registry and the flag.
Compiled(r, reg, tabs, flag) ==
    [result |-> r, registered |-> reg, tables |-> tabs, compiled |-> flag]

\* (A compile that fills the registry again: the tables computed before are
\* dropped with the flag.)
compile_afresh(inner, g, reg, tabs, flag, mode, data_ok) ==
    LET cmode == compile_mode(inner, mode) IN
    IF cmode.kind = "Err" THEN Compiled(cmode, reg, tabs, flag)
    ELSE IF ~data_ok THEN Compiled(Err("IoError"), update_with(g, reg), tabs, flag)
    ELSE IF flag THEN Compiled(Ok(Unit), update_with(g, reg), {}, FALSE)
    ELSE Compiled(Ok(Unit), update_with(g, reg),
                  tabs \cup {TableKey(s) : s \in computed_settings(inner, cmode.value)},
                  TRUE)

\* compile, on the engine fields it reads and writes: the result, the
\* materials and the tables of the registry and the compiled flag after the
\* call. data_ok: the atomic data could be loaded.
compile(inner, g, reg, tabs, flag, mode, data_ok) ==
    LET cmode == compile_mode(inner, mode) IN
    IF cmode.kind = "Err" THEN Compiled(cmode, reg, tabs, flag)
    ELSE IF ~data_ok THEN Compiled(Err("IoError"), update_with(g, reg), tabs, flag)
    ELSE Compiled(Ok(Unit), update_with(g, reg),
                  tabs \cup {TableKey(s) : s \in computed_settings(inner, cmode.value)},
                  TRUE)

-----------------------------------------------------------------------------
(* PyTransportEngine::__getstate__ and __setstate__.                       *)

\* The enumerators in the order of their codes in the byte stream.
ModeCodes == <<"Forward", "Backward">>

ComptonModeCodes == <<"Adjoint", "Direct", "Inverse", "None">>

ComptonMethodCodes == <<"InverseTransform", "RejectionSampling">>

ComptonModelCodes == <<"KleinNishina", "Penelope", "ScatteringFunction">>

AbsorptionCodes == <<"Continuous", "Discrete", "None">>

\* The code of an enumerator: its index in the list.
code(names, name) == CHOOSE j \in 1..Len(names) : names[j] = name

\* The byte of a table of the registry.
key_code(key) ==
    (code(ModeCodes, key[1]) - 1) * Len(ComptonModeCodes) + code(ComptonModeCodes, key[2])

\* The codes of a set, in increasing order.
RECURSIVE sorted(_)
sorted(codes) ==
    IF codes = {} THEN <<>>
    ELSE LET least == CHOOSE c \in codes : \A d \in codes : c <= d
         IN  <<least>> \o sorted(codes \ {least})

\* Serialize for the random stream, the registry, the settings and a bool.
serialize_random(rnd) == <<rnd>>

serialize_registry(reg, tabs) ==
    <<Cardinality(reg)>> \o sorted(reg)
        \o <<Cardinality(tabs)>> \o sorted({key_code(t) : t \in tabs})

serialize_settings(inner) ==
    <<code(ModeCodes, inner.mode), code(ComptonModeCodes, inner.compton_mode),
      code(ComptonMethodCodes, inner.compton_method),
      code(ComptonModelCodes, inner.compton_model),
      code(AbsorptionCodes, inner.absorption)>>
        \o (IF inner.constraint = None THEN <<0>> ELSE <<1, inner.constraint[1]>>)

serialize_bool(flag) == <<IF flag THEN 1 ELSE 0>>

\* (__getstate__ without the compiled flag.)
getstate_no_flag(rnd, reg, tabs, self, flag) ==
    serialize_random(rnd) \o serialize_registry(reg, tabs)
        \o serialize_settings(self.inner) \o serialize_bool(FALSE)

\* __getstate__: the byte stream holds the random stream, the registry, the
\* inner settings and the compiled flag, in this order.
getstate(rnd, reg, tabs, self, flag) ==
    serialize_random(rnd) \o serialize_registry(reg, tabs)
        \o serialize_settings(self.inner) \o serialize_bool(flag)

\* What a deserializer returns: the value and the position after it.
Read(v, next) == [kind |-> "Ok", value |-> v, next |-> next]

\* Deserialize, from the position pos of the bytes.
deserialize_random(bytes, pos) ==
    IF pos > Len(bytes) THEN Err("DecodeError") ELSE Read(bytes[pos], pos + 1)

\* A counted list of codes.
deserialize_codes(bytes, pos) ==
    IF pos > Len(bytes) \/ pos + bytes[pos] > Len(bytes) THEN Err("DecodeError")
    ELSE Read({bytes[pos + j] : j \in 1..bytes[pos]}, pos + bytes[pos] + 1)

deserialize_registry(bytes, pos) ==
    LET names == deserialize_codes(bytes, pos) IN
    IF names.kind = "Err" THEN names
    ELSE LET read == deserialize_codes(bytes, names.next)
             keys == {<<m, c>> : m \in TransportModes, c \in ComptonModes}
         IN  IF read.kind = "Err" THEN read
             ELSE IF \A c \in read.value : \E t \in keys : key_code(t) = c
             THEN Read([registered |-> names.value,
                        tables |-> {t \in keys : key_code(t) \in read.value}],
                       read.next)
             ELSE Err("DecodeError")

deserialize_settings(bytes, pos) ==
    IF pos + 5 > Len(bytes) THEN Err("DecodeError")
    ELSE IF \/ bytes[pos] \notin 1..Len(ModeCodes)
            \/ bytes[pos + 1] \notin 1..Len(ComptonModeCodes)
            \/ bytes[pos + 2] \notin 1..Len(ComptonMethodCodes)
            \/ bytes[pos + 3] \notin 1..Len(ComptonModelCodes)
            \/ bytes[pos + 4] \notin 1..Len(AbsorptionCodes)
            \/ bytes[pos + 5] \notin {0, 1}
            \/ (bytes[pos + 5] = 1 /\ pos + 6 > Len(bytes))
    THEN Err("DecodeError")
    ELSE Read([mode |-> ModeCodes[bytes[pos]],
               compton_mode |-> ComptonModeCodes[bytes[pos + 1]],
               compton_method |-> ComptonMethodCodes[bytes[pos + 2]],
               compton_model |-> ComptonModelCodes[bytes[pos + 3]],
               absorption |-> AbsorptionCodes[bytes[pos + 4]],
               constraint |-> IF bytes[pos + 5] = 0 THEN None ELSE Some(bytes[pos + 6])],
              IF bytes[pos + 5] = 0 THEN pos + 6 ELSE pos + 7)

deserialize_bool(bytes, pos) ==
    IF pos > Len(bytes) \/ bytes[pos] \notin {0, 1} THEN Err("DecodeError")
    ELSE Read(bytes[pos] = 1, pos + 1)

\* The settings after __setstate__: the flag follows the constraint (lines
\* 355-359).
setstate_settings(inner) ==
    [inner |-> inner,
     volume_sources |-> IF inner.constraint = None THEN FALSE ELSE TRUE]

\* The engine fields __setstate__ writes, and its result.
Engine(rnd, registry, self, flag, r) ==
    [random |-> rnd, registered |-> registry.registered, tables |-> registry.tables,
     settings |-> self, compiled |-> flag, result |-> r]

\* __setstate__: the four values are read in the order of __getstate__, each
\* one assigned as soon as it is read.
setstate(rnd, reg, tabs, self, flag, bytes) ==
    LET registry == [registered |-> reg, tables |-> tabs]
        r1 == deserialize_random(bytes, 1) IN
    IF r1.kind = "Err" THEN Engine(rnd, registry, self, flag, r1)
    ELSE LET r2 == deserialize_registry(bytes, r1.next) IN
    IF r2.kind = "Err" THEN Engine(r1.value, registry, self, flag, r2)
    ELSE LET r3 == deserialize_settings(bytes, r2.next) IN
    IF r3.kind = "Err" THEN Engine(r1.value, r2.value, self, flag, r3)
    ELSE LET r4 == deserialize_bool(bytes, r3.next) IN
    IF r4.kind = "Err"
    THEN Engine(r1.value, r2.value, setstate_settings(r3.value), flag, r4)
    ELSE Engine(r1.value, r2.value, setstate_settings(r3.value), r4.value, Ok(Unit))

-----------------------------------------------------------------------------
(* PyTransportEngine::transport and transport_with.                        *)

\* The size check of the constraints (lines 502-513).
check_size(st, c) ==
    IF c # None /\ c[1].tag = "Array" /\ size(c[1]) # Len(st)
    THEN Err("ValueError") ELSE Ok(Unit)

\* The lazy compilation (lines 516-519).
lazy_compile(inner, g, reg, tabs, flag, data_ok) ==
    IF ~flag THEN compile(inner, g, reg, tabs, flag, Some("Both"), data_ok)
    ELSE Compiled(Ok(Unit), reg, tabs, flag)

\* (A transport that goes on without a geometry.)
check_geometry_skipped(g) == Ok(Unit)

\* The geometry check (lines 522-526).
check_geometry(g) == IF g = None THEN Err("TypeError") ELSE Ok(Unit)

\* The local settings of transport_with (lines 575-578).
clone_settings(inner, c) ==
    IF c = None THEN [inner EXCEPT !.constraint = None] ELSE inner

\* (check_constraints without the test of the Forward mode.)
check_constraints_backward_only(s, c) ==
    IF c # None /\ s.mode = "Backward" /\ s.constraint = None
    THEN Err("ValueError") ELSE Ok(Unit)

\* The consistency check of the constraints (lines 581-589).
check_constraints(s, c) ==
    IF c # None
    THEN IF s.mode = "Forward" THEN Err("ValueError")
         ELSE IF s.constraint = None THEN Err("ValueError")
         ELSE Ok(Unit)
    ELSE Ok(Unit)

\* (photon_settings on the settings of the engine as they are now.)
photon_settings_live(s, c, k) ==
    LET now == clone_settings(settings.inner, c) IN
        IF c # None
        THEN [now EXCEPT !.constraint =
                  Some(IF c[1].tag = "Array" THEN c[1].array[k + 1] ELSE c[1].scalar)]
        ELSE now

\* (photon_settings with the first source energy used for every photon.)
photon_settings_shared(s, c, k) ==
    IF c # None
    THEN [s EXCEPT !.constraint =
              Some(IF c[1].tag = "Array" THEN c[1].array[1] ELSE c[1].scalar)]
    ELSE s

\* The settings photon k is transported with (lines 601-607).
photon_settings(s, c, k) ==
    IF c # None
    THEN [s EXCEPT !.constraint =
              Some(IF c[1].tag = "Array" THEN c[1].array[k + 1] ELSE c[1].scalar)]
    ELSE s

\* (A loop that never polls.)
poll_never(k) == FALSE

\* (A loop that polls at the indices 99, 199, ...)
poll_due_after(k) == (k + 1) % TransportPeriod = 0

\* The poll condition of transport_with (line 612).
poll_due(k) == k % TransportPeriod = 0

\* No call is running: a new call may start.
Idle == pc = "idle"

\* The write counts of a call that has no arrays.
NoWrites == [states |-> <<>>, status |-> <<>>]

\* A tracer that was never reset.
NoTracer == [position |-> 0, direction |-> 1, sector |-> None, grazing |-> FALSE]

\* No ExternalGeometry object, no surface, no constructor call.
NoExternal == None

NoSurface == None

NoStratified == None

\* No array is held by the host.
NoArray == None

\* No trace call is running.
NoTrace ==
    /\ lengths' = None
    /\ density' = None
    /\ tracer' = NoTracer
    /\ length' = 0
    /\ grammages' = <<>>
    /\ k_poll' = 0
    /\ matrix' = <<>>
    /\ supplied' = 0
    /\ taken' = 0
    /\ asked' = None
    /\ at_poll' = None
    /\ all_zero' = FALSE
    /\ unpolled' = 0
    /\ stepped' = <<>>

\* A call that takes no array leaves no batch behind it.
NoArrays ==
    /\ pc' = "idle"
    /\ definition' = SimpleGeometry
    /\ states' = <<>>
    /\ input' = <<>>
    /\ writeable' = TRUE
    /\ constraints' = None
    /\ local_settings' = DefaultSettings
    /\ status' = <<>>
    /\ sectors' = <<>>
    /\ i' = 0
    /\ ctrlc' = FALSE
    /\ raised_at' = -1
    /\ calls' = <<>>
    /\ polls' = {}
    /\ writes' = NoWrites
    /\ ndarray' = NoArray
    /\ accessed' = None
    /\ started' = None
    /\ NoTrace

\* A call other than __setstate__ leaves no outcome of a restoration either.
NoBatch ==
    /\ NoArrays
    /\ loaded' = None

\* (The end of a loop iteration that steps over a photon.)
TransportAdvanceByTwo(st) ==
    IF i + 2 >= Len(states)
    THEN /\ pc' = "done"
         /\ i' = Len(states)
         /\ result' = Ok(st)
    ELSE /\ pc' = "transport"
         /\ i' = i + 2
         /\ UNCHANGED result

\* The end of a loop iteration: the next photon, or the status array returned.
TransportAdvance(st) ==
    IF i + 1 = Len(states)
    THEN /\ pc' = "done"
         /\ i' = i + 1
         /\ result' = Ok(st)
    ELSE /\ pc' = "transport"
         /\ i' = i + 1
         /\ UNCHANGED result

\* transport, up to the first photon.
TransportBegin(batches) ==
    \E st \in batches, w \in BOOLEAN :
    \E c \in SourcesEnergies(Len(st)), data_ok \in {TRUE} \cup {compiled} :
        LET sized == check_size(st, c)
            comp == IF sized.kind = "Ok"
                    THEN lazy_compile(settings.inner, geometry, registered, tables,
                                      compiled, data_ok)
                    ELSE Compiled(sized, registered, tables, compiled)
            geom == IF comp.result.kind = "Ok" THEN check_geometry(geometry)
                    ELSE comp.result
            local == clone_settings(settings.inner, c)
            cons == IF geom.kind = "Ok" THEN check_constraints(local, c) ELSE geom
        IN  /\ Idle
            /\ states' = st
            /\ input' = st
            /\ writeable' = w
            /\ constraints' = c
            /\ registered' = comp.registered
            /\ tables' = comp.tables
            /\ compiled' = comp.compiled
            /\ local_settings' = IF geom.kind = "Ok" THEN local ELSE DefaultSettings
            /\ status' = IF geom.kind = "Ok" THEN empty(Len(st), NoStatus) ELSE <<>>
            /\ i' = 0
            /\ ctrlc' = FALSE
            /\ raised_at' = -1
            /\ calls' = <<>>
            /\ polls' = {}
            /\ writes' = [states |-> [j \in 1..Len(st) |-> 0],
                          status |-> [j \in 1..Len(st) |-> 0]]
            /\ started' = Some([at_start |-> settings, by_host |-> settings])
            /\ IF cons.kind = "Err"
               THEN pc' = "done" /\ result' = cons
               ELSE IF Len(st) = 0
               THEN pc' = "done" /\ result' = Ok(empty(0, NoStatus))
               ELSE pc' = "transport" /\ result' = Ok(Unit)
            /\ UNCHANGED <<settings, geometry, random, pickle, definition, sectors,
                           trace_vars, host_objects, loaded, ndarray, accessed>>

\* (As TransportPhoton, with the photon written back before the agent's
\* result is looked at.)
TransportPhotonWritesFirst ==
    \E agent_ok \in BOOLEAN :
        LET s == photon_settings(local_settings, constraints, i)
            state == states[i + 1]
            st == [status EXCEPT ![i + 1] = into_i32(agent_status(s, random))]
        IN  /\ pc = "transport"
            /\ local_settings' = s
            /\ calls' = Append(calls, [index |-> i, settings |-> s])
            /\ random' = next_random(random)
            /\ IF ~writeable
               THEN /\ pc' = "done"
                    /\ result' = Err("ValueError")
                    /\ UNCHANGED <<states, status, i, writes>>
               ELSE /\ states' = [states EXCEPT ![i + 1] = agent_state(s, state)]
                    /\ IF ~agent_ok
                       THEN /\ pc' = "done"
                            /\ result' = Err("AgentError")
                            /\ writes' = [writes EXCEPT !.states[i + 1] = @ + 1]
                            /\ UNCHANGED <<status, i>>
                       ELSE /\ status' = st
                            /\ writes' = [writes EXCEPT !.states[i + 1] = @ + 1,
                                                        !.status[i + 1] = @ + 1]
                            /\ IF poll_due(i)
                               THEN pc' = "transport_poll" /\ UNCHANGED <<i, result>>
                               ELSE TransportAdvance(st)
            /\ UNCHANGED <<settings, compiled, geometry, registered, tables, pickle, definition,
                           input, writeable, constraints, sectors, ctrlc,
                           raised_at, polls, trace_vars, object_vars>>

\* One iteration of the loop of transport_with, up to the poll.
TransportPhoton ==
    \E agent_ok \in BOOLEAN :
        LET s == photon_settings(local_settings, constraints, i)
            state == states[i + 1]
            st == [status EXCEPT ![i + 1] = into_i32(agent_status(s, random))]
        IN  /\ pc = "transport"
            /\ local_settings' = s
            /\ calls' = Append(calls, [index |-> i, settings |-> s])
            /\ random' = next_random(random)
            /\ IF ~agent_ok
               THEN /\ pc' = "done"
                    /\ result' = Err("AgentError")
                    /\ UNCHANGED <<states, status, i, writes>>
               ELSE IF ~writeable
               THEN /\ pc' = "done"
                    /\ result' = Err("ValueError")
                    /\ UNCHANGED <<states, status, i, writes>>
               ELSE /\ states' = [states EXCEPT ![i + 1] = agent_state(s, state)]
                    /\ status' = st
                    /\ writes' = [writes EXCEPT !.states[i + 1] = @ + 1,
                                                !.status[i + 1] = @ + 1]
                    /\ IF poll_due(i)
                       THEN pc' = "transport_poll" /\ UNCHANGED <<i, result>>
                       ELSE TransportAdvance(st)
            /\ UNCHANGED <<settings, compiled, geometry, registered, tables, pickle, definition,
                           input, writeable, constraints, sectors, ctrlc,
                           raised_at, polls, trace_vars, object_vars>>

\* The poll of transport_with (lines 612-614).
TransportPoll ==
    LET r == ctrlc_catched(ctrlc) IN
        /\ pc = "transport_poll"
        /\ polls' = polls \cup {i}
        /\ ctrlc' = FALSE
        /\ IF r.kind = "Err"
           THEN pc' = "done" /\ result' = r /\ UNCHANGED i
           ELSE TransportAdvance(status)
        /\ UNCHANGED <<engine_vars, pickle, definition, states, input, writeable,
                       constraints, local_settings, status, sectors, raised_at,
                       calls, writes, trace_vars, object_vars>>

\* Host code that runs inside the probe (a signal handler called by
\* PyErr_CheckSignals) calls a setter of the settings object of the engine.
ChangeSettings ==
    \E ret \in {set_mode(settings, value) : value \in TransportModes}
                 \cup {set_volume_sources(settings, Some(value)) : value \in BOOLEAN} :
        /\ pc = "transport_poll"
        /\ settings' = ret.self
        /\ started' = Some([started[1] EXCEPT !.by_host = ret.self])
        /\ UNCHANGED <<compiled, geometry, random, registered, tables, pickle, pc,
                       definition, states, input, writeable, constraints, local_settings,
                       status, sectors, i, result, ctrlc, raised_at, calls, polls,
                       writes, trace_vars, host_objects, loaded, ndarray, accessed>>

\* The host raises the cancellation flag while a batch runs.
RaiseCtrlC ==
    /\ pc \in {"transport", "transport_poll", "locate", "locate_poll",
              "trace", "trace_loop", "trace_poll"}
    /\ ~ctrlc
    /\ ctrlc' = TRUE
    /\ raised_at' = i
    /\ UNCHANGED <<engine_vars, pickle, pc, definition, states, input, writeable,
                   constraints, local_settings, status, sectors, i, result,
                   calls, polls, writes, trace_vars, object_vars>>

-----------------------------------------------------------------------------
(* locate (geometry.rs).                                                   *)

\* The states arrays of a locate batch: positions below, inside and above the
\* interfaces, unit directions and a direction that is no unit vector.
\* Photon k starts at the height z0 + k, wrapped into -1..MaxHeight + 1; the
\* photon at index bad, if any, has a direction that is no unit vector.
LocateBatch(n, z0, bad) ==
    [k \in 1..n |-> Photon(1, ((z0 + k) % (MaxHeight + 3)) - 1, IF k = bad THEN 0 ELSE 1)]

LocateBatches ==
    {LocateBatch(n, z0, bad) : n \in 0..MaxLocate, z0 \in 0..(MaxHeight + 2),
                               bad \in 0..MaxLocate}

\* Option::unwrap_or.
unwrap_or(opt, default) == IF opt = None THEN default ELSE opt[1]

\* (located with the first sector standing for outside.)
located_first(g, sector) == unwrap_or(sector, 0)

\* The entry locate writes for the sector the tracer reports (line 632).
located(g, sector) == unwrap_or(sector, num_sectors(g))

\* The poll condition of locate (line 635).
locate_poll_due(k) == k % LocatePeriod = 0

\* The end of a loop iteration: the next photon, or the sectors array returned.
LocateAdvance(sec) ==
    IF i + 1 = Len(states)
    THEN /\ pc' = "done"
         /\ i' = i + 1
         /\ result' = Ok(sec)
    ELSE /\ pc' = "locate"
         /\ i' = i + 1
         /\ UNCHANGED result

\* locate, up to the first photon.
LocateBegin(geometries, batches) ==
    \E g \in geometries, st \in batches :
        /\ Idle
        /\ definition' = g
        /\ states' = st
        /\ input' = st
        /\ sectors' = empty(Len(st), NoSector)
        /\ IF Len(st) = 0
           THEN pc' = "done" /\ result' = Ok(empty(0, NoSector))
           ELSE pc' = "locate" /\ result' = Ok(Unit)
        /\ UNCHANGED <<engine_vars, pickle, writeable, constraints, local_settings,
                       status, i, ctrlc, raised_at, calls, polls, writes,
                       trace_vars, object_vars>>

\* One iteration of the loop of locate, up to the poll.
LocatePhoton ==
    LET state == states[i + 1]
        sector == tracer_reset(definition, state.position, state.direction)
    IN  /\ pc = "locate"
        /\ IF sector.kind = "Err"
           THEN /\ pc' = "done"
                /\ result' = sector
                /\ UNCHANGED <<sectors, i>>
           ELSE /\ sectors' = [sectors EXCEPT ![i + 1] = located(definition, sector.value)]
                /\ IF locate_poll_due(i)
                   THEN pc' = "locate_poll" /\ UNCHANGED <<i, result>>
                   ELSE LocateAdvance(sectors')
        /\ UNCHANGED <<engine_vars, pickle, definition, states, input, writeable,
                       constraints, local_settings, status, ctrlc, raised_at,
                       calls, polls, writes, trace_vars, object_vars>>

\* The poll of locate (lines 635-637).
LocatePoll ==
    LET r == ctrlc_catched(ctrlc) IN
        /\ pc = "locate_poll"
        /\ polls' = polls \cup {i}
        /\ ctrlc' = FALSE
        /\ IF r.kind = "Err"
           THEN pc' = "done" /\ result' = r /\ UNCHANGED <<i, sectors>>
           ELSE LocateAdvance(sectors) /\ UNCHANGED sectors
        /\ UNCHANGED <<engine_vars, pickle, definition, states, input, writeable,
                       constraints, local_settings, status, raised_at, calls,
                       writes, trace_vars, object_vars>>

-----------------------------------------------------------------------------
(* trace (geometry.rs).                                                    *)

\* What stands for an entry of the result array that was never written.
NoGrammage == 0 - 1

\* A stack of n sectors of unit thickness: the interfaces at the heights
\* n, n - 1, ..., 0, the top and the bottom one bounded or not.
Stack(n, top, bottom) ==
    [j \in 1..(n + 1) |->
        IF (j = 1 /\ ~top) \/ (j = n + 1 /\ ~bottom) THEN None ELSE Some(n + 1 - j)]

\* The geometry definitions trace runs on.
TraceGeometries ==
    {SimpleGeometry}
        \cup {StratifiedGeometry(Stack(n, top, bottom)) :
                  n \in 1..MaxSectors, top \in BOOLEAN, bottom \in BOOLEAN}

\* The states arrays of a trace batch: photon j starts at the height z0 + j
\* (wrapped into -1..MaxHeight + 1) and moves along u; the photon at index
\* bad, if any, has a direction that is no unit vector.
TraceBatch(n, z0, u, bad) ==
    [j \in 1..n |->
        Photon(1, ((z0 + j) % (MaxHeight + 3)) - 1, IF j = bad THEN 0 ELSE u)]

\* The first photon starts at the lowest interface or above every interface.
TraceBatches ==
    {TraceBatch(n, z0, u, bad) :
         n \in 0..MaxTrace, z0 \in {0, MaxHeight + 1}, u \in {-1, 1},
         bad \in {0, MaxTrace}}

\* The lengths arguments tried with a states array of size n: a scalar, an
\* array of the same size, an array of another size.
TraceLengths(n) ==
    {Some(Float(l)) : l \in {0, MaxLength}}
        \cup {Some(Array([j \in 1..m |-> j % (MaxLength + 1)])) : m \in {n, n + 1}}

\* The calls of trace: every geometry with every batch and every lengths
\* argument, and every geometry with a full batch and no lengths.
TraceCalls ==
    {[definition |-> g, states |-> st, lengths |-> l, density |-> d] :
         g \in TraceGeometries, st \in TraceBatches,
         l \in UNION {TraceLengths(n) : n \in 0..MaxTrace}, d \in {None, Some(TRUE)}}
        \cup {[definition |-> g, states |-> TraceBatch(MaxTrace, 0, u, 0),
               lengths |-> None, density |-> Some(FALSE)] :
                  g \in TraceGeometries, u \in {-1, 1}}

\* The geometries of the calls of locate and of trace that run beside the
\* other batches: the thinnest and the deepest stack.
BatchGeometries == {StratifiedGeometry(Stack(n, TRUE, TRUE)) : n \in {1, MaxSectors}}

\* Those calls of trace: full batches, upwards and downwards, with the
\* largest length and with none.
BatchTraceCalls ==
    {[definition |-> g, states |-> TraceBatch(MaxTrace, 0, u, 0), lengths |-> l,
      density |-> Some(FALSE)] :
         g \in BatchGeometries, u \in {-1, 1}, l \in {None, Some(Float(MaxLength))}}

\* Those calls of locate: full batches that start at the lowest interface or
\* above every interface, all directions being unit vectors or the last one
\* not.
BatchLocateBatches ==
    {LocateBatch(MaxLocate, z0, bad) : z0 \in {0, MaxHeight + 1}, bad \in {0, MaxLocate}}

\* A batch of more states than the poll period, each with a length of zero:
\* the first step of every state exhausts its length.
LongTraceCalls ==
    {[definition |-> SimpleGeometry, states |-> TraceBatch(TracePeriod + 1, 0, 1, 0),
      lengths |-> Some(Float(0)), density |-> None]}

\* The rays that may graze an interface: those that start on the lowest
\* interface, at the height 0, and move up, in a call without lengths.
GrazingRay(g, l, state) ==
    /\ l = None
    /\ state.position = 0
    /\ state.direction = 1
    /\ g.interfaces[Len(g.interfaces)] = Some(0)

\* The density of a sector (a uniform density model).
sector_density(g, sector) == sector + 1

\* DensityModel::column_depth of a uniform model.
column_depth(rho, step_length) == fmul(rho, step_length)

\* The interface ahead of the tracer, in its direction of travel.
interface_ahead(g, t) ==
    IF t.direction = 1 THEN g.interfaces[t.sector[1] + 1]
    ELSE g.interfaces[t.sector[1] + 2]

\* The distance to that interface, INFINITY when it is unbounded.
distance_ahead(g, t) ==
    LET b == interface_ahead(g, t) IN
    IF b = None THEN INFINITY
    ELSE IF t.direction = 1 THEN fsub(b[1], t.position)
    ELSE fsub(t.position, b[1])

\* GeometryTracer::trace: the step up to max_length or up to the interface
\* ahead, whichever comes first; a zero-length step for a grazing ray.
tracer_trace(g, t, max_length) ==
    IF t.grazing THEN 0 ELSE fmin(max_length, distance_ahead(g, t))

\* GeometryTracer::update: the step is committed; a step that reaches the
\* interface ahead enters the next sector in the direction of travel, or
\* leaves the geometry. A grazing ray stays where it is.
tracer_update(g, t, step_length) ==
    LET sector == t.sector[1]
        next == IF t.direction = 1 THEN sector - 1 ELSE sector + 1
        crossed == /\ ~t.grazing
                   /\ interface_ahead(g, t) # None
                   /\ step_length = distance_ahead(g, t)
    IN  [position |-> fadd(t.position, fmul(step_length, t.direction)),
         direction |-> t.direction,
         sector |-> IF ~crossed THEN t.sector
                    ELSE IF next \in 0..(num_sectors(g) - 1) THEN Some(next)
                    ELSE None,
         grazing |-> t.grazing]

\* The size check of the lengths (lines 650-660).
check_lengths(st, l) ==
    IF l # None /\ l[1].tag = "Array" /\ size(l[1]) # Len(st)
    THEN Err("ValueError") ELSE Ok(Unit)

\* The length state j (counted from 0) starts with (lines 675-681).
initial_length(l, j) ==
    IF l = None THEN INFINITY
    ELSE IF l[1].tag = "Array" THEN l[1].array[j + 1]
    ELSE l[1].scalar

\* (The step credited to the sector the tracer enters with it.)
accumulate_entered(g, gram, sector, dens, step_length) ==
    LET entered == tracer_update(g, tracer, step_length).sector IN
        IF entered = None THEN gram
        ELSE [gram EXCEPT ![entered[1] + 1] =
                 fadd(@, IF dens THEN column_depth(sector_density(g, entered[1]),
                                                   step_length)
                         ELSE step_length)]

\* The accumulation of a step (lines 687-695).
accumulate(g, gram, sector, dens, step_length) ==
    [gram EXCEPT ![sector + 1] =
        fadd(@, IF dens THEN column_depth(sector_density(g, sector), step_length)
                ELSE step_length)]

\* (A loop that does not stop when the length is exhausted.)
exhausted_never(l, remaining) == FALSE

\* The loop stops when a length was supplied and is exhausted (lines 696-699).
exhausted(l, remaining) == l # None /\ remaining <= 0

\* The poll condition of trace (line 704).
trace_poll_due(count) == count = TracePeriod

\* The state of the loop over one photon, with the counter at count: all that
\* the next iterations depend on.
LoopState(count) == <<tracer, length, grammages, count>>

\* trace returns an error: its locals and the result array are dropped.
TraceFail(e) ==
    /\ pc' = "done"
    /\ result' = e
    /\ tracer' = NoTracer
    /\ length' = 0
    /\ grammages' = <<>>
    /\ k_poll' = 0
    /\ matrix' = <<>>
    /\ supplied' = 0
    /\ taken' = 0
    /\ asked' = None
    /\ at_poll' = None
    /\ all_zero' = FALSE
    /\ unpolled' = 0
    /\ stepped' = <<>>

\* trace, up to the first state.
TraceBegin(trace_calls) ==
    \E call \in trace_calls :
        LET g == call.definition
            st == call.states
            l == call.lengths
            d == call.density
            sized == check_lengths(st, l)
            m == num_sectors(g)
        IN  /\ Idle
            /\ definition' = g
            /\ states' = st
            /\ input' = st
            /\ lengths' = l
            /\ density' = d
            /\ matrix' = IF sized.kind = "Ok" THEN empty(Len(st) * m, NoGrammage)
                         ELSE <<>>
            /\ IF sized.kind = "Err"
               THEN pc' = "done" /\ result' = sized
               ELSE IF Len(st) = 0
               THEN pc' = "done" /\ result' = Ok(empty(0, NoGrammage))
               ELSE pc' = "trace" /\ result' = Ok(Unit)
            /\ UNCHANGED <<engine_vars, pickle, writeable, constraints, local_settings,
                           status, sectors, i, ctrlc, raised_at, calls, polls,
                           writes, tracer, length, grammages, k_poll, supplied, taken,
                           asked, at_poll, all_zero, unpolled, stepped, object_vars>>

\* The start of the loop over state i: the tracer is reset, the accumulator
\* is cleared and the length is read (lines 672-681). grazing: the ray grazes
\* an interface, and the tracer keeps returning zero-length steps.
TraceState ==
    \E grazing \in BOOLEAN :
        LET state == states[i + 1]
            sector == tracer_reset(definition, state.position, state.direction)
            first == initial_length(lengths, i)
        IN  /\ pc = "trace"
            /\ grazing => GrazingRay(definition, lengths, state)
            /\ IF sector.kind = "Err"
               THEN TraceFail(sector)
               ELSE /\ pc' = "trace_loop"
                    /\ tracer' = [position |-> state.position,
                                  direction |-> state.direction,
                                  sector |-> sector.value,
                                  grazing |-> grazing /\ sector.value # None]
                    /\ grammages' = [j \in 1..num_sectors(definition) |-> 0]
                    /\ length' = first
                    /\ supplied' = first
                    /\ taken' = 0
                    /\ asked' = None
                    /\ at_poll' = None
                    /\ all_zero' = FALSE
                    /\ stepped' = [j \in 1..num_sectors(definition) |-> 0]
                    /\ UNCHANGED <<result, k_poll, matrix, unpolled>>
            /\ UNCHANGED <<engine_vars, pickle, definition, states, input, writeable,
                           constraints, local_settings, status, sectors, i, ctrlc,
                           raised_at, calls, polls, writes, lengths, density,
                           object_vars>>

\* (The rows of the result filled from the last one to the first.)
TraceRowFromLast(gram) ==
    LET m == num_sectors(definition)
        r == Len(states) - 1 - i
        rows == [j \in 1..Len(matrix) |->
                    IF j > r * m /\ j <= r * m + m THEN gram[j - r * m] ELSE matrix[j]]
    IN  /\ matrix' = rows
        /\ i' = i + 1
        /\ IF i + 1 = Len(states)
           THEN pc' = "done" /\ result' = Ok(rows)
           ELSE pc' = "trace" /\ UNCHANGED result

\* The end of the loop over state i: its row of the result is written (lines
\* 709-712), then the next state, or the result returned.
TraceRow(gram) ==
    LET m == num_sectors(definition)
        rows == [j \in 1..Len(matrix) |->
                    IF j > i * m /\ j <= i * m + m THEN gram[j - i * m] ELSE matrix[j]]
    IN  /\ matrix' = rows
        /\ i' = i + 1
        /\ IF i + 1 = Len(states)
           THEN pc' = "done" /\ result' = Ok(rows)
           ELSE pc' = "trace" /\ UNCHANGED result

\* One iteration of the loop over state i, up to the poll (lines 682-703).
\* stable: tracer.trace returns a step; moved: tracer.update succeeds.
TraceStep ==
    \E stable \in BOOLEAN, moved \in BOOLEAN :
        /\ pc = "trace_loop"
        /\ IF tracer.sector = None
           THEN /\ TraceRow(grammages)
                /\ UNCHANGED <<tracer, length, grammages, k_poll, taken, asked, all_zero,
                               supplied, at_poll, unpolled, stepped>>
           ELSE LET sector == tracer.sector[1]
                    step_length == tracer_trace(definition, tracer, length)
                    gram == accumulate(definition, grammages, sector,
                                       unwrap_or(density, FALSE), step_length)
                    remaining == IF lengths # None THEN fsub(length, step_length)
                                 ELSE length
                    updated == tracer_update(definition, tracer, step_length)
                IN  IF ~stable
                    THEN TraceFail(Err("NumericalInstability")) /\ UNCHANGED i
                    ELSE IF ~exhausted(lengths, remaining) /\ ~moved
                    THEN TraceFail(Err("TracerError")) /\ UNCHANGED i
                    ELSE /\ grammages' = gram
                         /\ length' = remaining
                         /\ taken' = fadd(taken, step_length)
                         /\ asked' = Some(<<length, step_length>>)
                         /\ supplied' = supplied
                         /\ at_poll' = at_poll
                         /\ unpolled' = unpolled + 1
                         /\ stepped' = [stepped EXCEPT ![sector + 1] = fadd(@, step_length)]
                         /\ IF exhausted(lengths, remaining)
                            THEN /\ TraceRow(gram)
                                 /\ UNCHANGED <<tracer, k_poll, all_zero>>
                            ELSE /\ tracer' = updated
                                 /\ k_poll' = k_poll + 1
                                 /\ all_zero' = (all_zero /\ step_length = 0
                                                 /\ updated.sector = tracer.sector)
                                 /\ pc' = IF trace_poll_due(k_poll + 1) THEN "trace_poll"
                                          ELSE "trace_loop"
                                 /\ UNCHANGED <<matrix, i, result>>
        /\ UNCHANGED <<engine_vars, pickle, definition, states, input, writeable,
                       constraints, local_settings, status, sectors, ctrlc,
                       raised_at, calls, polls, writes, lengths, density,
                       object_vars>>

\* The poll of trace (lines 704-707).
TracePoll ==
    LET r == ctrlc_catched(ctrlc) IN
        /\ pc = "trace_poll"
        /\ polls' = polls \cup {i}
        /\ ctrlc' = FALSE
        /\ IF r.kind = "Err"
           THEN TraceFail(r)
           ELSE /\ pc' = "trace_loop"
                /\ k_poll' = 0
                /\ at_poll' = Some(LoopState(0))
                /\ all_zero' = TRUE
                /\ unpolled' = 0
                /\ UNCHANGED stepped
                /\ UNCHANGED <<result, tracer, length, grammages, matrix, supplied,
                               taken, asked>>
        /\ UNCHANGED <<engine_vars, pickle, definition, states, input, writeable,
                       constraints, local_settings, status, sectors, i, raised_at,
                       calls, writes, lengths, density, object_vars>>

\* The host takes the result of a batch call and drops its arrays.
Return ==
    /\ pc = "done"
    /\ result' = Ok(Unit)
    /\ NoBatch
    /\ UNCHANGED <<engine_vars, pickle, host_objects>>

-----------------------------------------------------------------------------
(* PyExternalGeometry (geometry.rs).                                       *)

\* The material definitions and the density models of the sectors.
MaterialDefinitions == {"Rock", "Water"}

Densities == {1, 2}

\* The geometries a native provider gives: n materials, and m sectors that
\* hold the index of a material and a density. The sectors share the
\* materials in turn; the mutators reach the other geometries of this size.
ExternalGeometries ==
    {[materials |-> [j \in 1..n |-> "Rock"],
      sectors |-> [k \in 1..m |-> [material |-> (k - 1) % n, density |-> 1]]] :
         n \in 1..MaxSectors, m \in 1..MaxSectors}

\* (new, with a copy of its material in each exported sector.)
new_external_copies(inner) ==
    [inner |-> inner,
     objects |-> [j \in 1..(Len(inner.materials) + Len(inner.sectors)) |->
                     IF j <= Len(inner.materials) THEN inner.materials[j]
                     ELSE inner.materials[
                              inner.sectors[j - Len(inner.materials)].material + 1]],
     materials |-> [j \in 1..Len(inner.materials) |-> j],
     sectors |-> [k \in 1..Len(inner.sectors) |->
                     [material |-> Len(inner.materials) + k,
                      density |-> inner.sectors[k].density]],
     call |-> None]

\* PyExternalGeometry::new (lines 131-158). The exported view is a tuple of
\* material objects, clones of the inner materials, and a tuple of sectors;
\* an exported sector holds a reference to the object of its material.
\* objects[id] is the definition held by the object id, materials[j] the id of
\* the j-th entry of the exported tuple.
new_external(inner) ==
    [inner |-> inner,
     objects |-> [j \in 1..Len(inner.materials) |-> inner.materials[j]],
     materials |-> [j \in 1..Len(inner.materials) |-> j],
     sectors |-> [k \in 1..Len(inner.sectors) |->
                     [material |-> inner.sectors[k].material + 1,
                      density |-> inner.sectors[k].density]],
     call |-> None]

\* What the host reads: materials[j] and sectors[k].material.
exported_material(e, j) == e.objects[e.materials[j + 1]]

exported_sector_material(e, k) == e.objects[e.sectors[k + 1].material]

\* The material argument of update_material: a definition, an entry of the
\* exported materials of this geometry, or a name that stands for no
\* material.
MaterialLike(e) ==
    {[kind |-> "Definition", value |-> d] : d \in MaterialDefinitions}
        \cup {[kind |-> "Exported", index |-> j] : j \in 0..(Len(e.materials) - 1)}
        \cup {[kind |-> "Unknown"]}

\* MaterialLike::unpack.
unpack(e, material) ==
    IF material.kind = "Definition" THEN Ok(material.value)
    ELSE IF material.kind = "Exported" THEN Ok(exported_material(e, material.index))
    ELSE Err("ValueError")

\* ExternalGeometry::update_material and update_sector.
inner_update_material(inner, index, material) ==
    IF index >= Len(inner.materials) THEN Err("ValueError")
    ELSE Ok([inner EXCEPT !.materials[index + 1] = material])

inner_update_sector(inner, index, material, model) ==
    IF index >= Len(inner.sectors) THEN Err("ValueError")
    ELSE IF material # None /\ material[1] >= Len(inner.materials) THEN Err("ValueError")
    ELSE Ok([inner EXCEPT
                !.sectors[index + 1].material =
                    IF material = None THEN @ ELSE material[1],
                !.sectors[index + 1].density =
                    IF model = None THEN @ ELSE model[1]])

\* extract::<PyRefMut<_>>() of an exported material (line 185): it fails when
\* the object is borrowed, which it is when it is the argument of the call.
borrowed(e, index, material) ==
    material.kind = "Exported" /\ e.materials[material.index + 1] = e.materials[index + 1]

\* update_material (lines 173-189): the geometry after the call, and the
\* result.
update_material(e, index, material) ==
    LET unpacked == unpack(e, material) IN
    IF unpacked.kind = "Err" THEN [geometry |-> e, result |-> unpacked]
    ELSE LET updated == inner_update_material(e.inner, index, unpacked.value) IN
    IF updated.kind = "Err" THEN [geometry |-> e, result |-> updated]
    ELSE IF borrowed(e, index, material)
    THEN [geometry |-> [e EXCEPT !.inner = updated.value],
          result |-> Err("RuntimeError")]
    ELSE [geometry |-> [e EXCEPT !.inner = updated.value,
                                 !.objects[e.materials[index + 1]] = unpacked.value],
          result |-> Ok(Unit)]

\* (update_sector that leaves the exported view as it is.)
update_sector_inner_only(e, index, material, model) ==
    LET updated == inner_update_sector(e.inner, index, material, model) IN
    IF updated.kind = "Err" THEN [geometry |-> e, result |-> updated]
    ELSE [geometry |-> [e EXCEPT !.inner = updated.value], result |-> Ok(Unit)]

\* update_sector (lines 191-213).
update_sector(e, index, material, model) ==
    LET updated == inner_update_sector(e.inner, index, material, model) IN
    IF updated.kind = "Err" THEN [geometry |-> e, result |-> updated]
    ELSE [geometry |->
              [e EXCEPT !.inner = updated.value,
                        !.sectors[index + 1].material =
                            IF material = None THEN @ ELSE e.materials[material[1] + 1],
                        !.sectors[index + 1].density =
                            IF model = None THEN @ ELSE model[1]],
          result |-> Ok(Unit)]

\* What a call of update_material did, for the record of the call.
material_updated(e, index, material, r) ==
    LET after == r.geometry
        unpacked == unpack(e, material)
        inner_ok == /\ unpacked.kind = "Ok"
                    /\ inner_update_material(e.inner, index, unpacked.value).kind = "Ok"
    IN  [op |-> "update_material",
         ok |-> r.result.kind = "Ok",
         inner_ok |-> inner_ok,
         changed |-> r.result.kind = "Ok" /\ exported_material(e, index) # unpacked.value,
         referred |-> r.result.kind = "Ok"
                         /\ \E k \in 1..Len(e.inner.sectors) :
                                e.inner.sectors[k].material = index,
         read_back |-> r.result.kind = "Ok"
                          => exported_material(after, index) = unpacked.value,
         others_same |-> \A j \in 0..(Len(e.materials) - 1) :
                             (j # index \/ ~inner_ok)
                                 => exported_material(after, j) = exported_material(e, j),
         sectors_same |-> /\ after.inner.sectors = e.inner.sectors
                          /\ after.sectors = e.sectors
                          /\ after.materials = e.materials,
         shown |-> r.result.kind = "Ok"
                      => \A k \in 1..Len(e.inner.sectors) :
                             e.inner.sectors[k].material = index
                                 => exported_sector_material(after, k - 1)
                                        = unpacked.value]

\* What a call of update_sector did.
sector_updated(e, index, material, model, r) ==
    LET after == r.geometry IN
        [op |-> "update_sector",
         ok |-> r.result.kind = "Ok",
         changed |-> /\ r.result.kind = "Ok"
                     /\ material # None
                     /\ model # None
                     /\ after.sectors[index + 1].material # e.sectors[index + 1].material
                     /\ after.sectors[index + 1].density # e.sectors[index + 1].density,
         others_same |-> /\ after.inner.materials = e.inner.materials
                         /\ after.objects = e.objects
                         /\ after.materials = e.materials
                         /\ \A k \in 1..Len(e.sectors) :
                                (k # index + 1 \/ r.result.kind = "Err")
                                    => /\ after.sectors[k] = e.sectors[k]
                                       /\ after.inner.sectors[k] = e.inner.sectors[k],
         supplied_only |-> r.result.kind = "Ok"
                              => /\ material = None
                                     => /\ after.sectors[index + 1].material
                                            = e.sectors[index + 1].material
                                        /\ after.inner.sectors[index + 1].material
                                            = e.inner.sectors[index + 1].material
                                 /\ material # None
                                     => /\ after.sectors[index + 1].material
                                            = after.materials[material[1] + 1]
                                        /\ after.inner.sectors[index + 1].material
                                            = material[1]
                                 /\ model = None
                                     => /\ after.sectors[index + 1].density
                                            = e.sectors[index + 1].density
                                        /\ after.inner.sectors[index + 1].density
                                            = e.inner.sectors[index + 1].density
                                 /\ model # None
                                     => /\ after.sectors[index + 1].density = model[1]
                                        /\ after.inner.sectors[index + 1].density
                                            = model[1]]

-----------------------------------------------------------------------------
(* PyTopographyMap and PyTopographySurface (geometry.rs).                  *)

\* The finite floats.
FiniteFloats == {fl(x) : x \in (1 - INFINITY)..(INFINITY - 1)} \ {INFINITY, 0 - INFINITY}

\* The largest finite float.
MaxFloat == INFINITY - 2^MaxExponent

\* The offsets the host builds surfaces with: small ones and the largest ones.
SurfaceOffsets == {0 - MaxFloat, 0 - 1, 1, MaxFloat}

\* The topography maps of the host, and the argument lists it builds surfaces
\* from.
TopographyMaps == {"land", "sea"}

MapArgs == {<<"land">>, <<"land", "sea">>, <<"sea", "land">>}

\* A map object and a surface object: the surface holds the tuple of its maps
\* and the offset of its inner TopographySurface.
Map(name) == [kind |-> "Map", name |-> name]

Surface(maps, offset) == [kind |-> "Surface", maps |-> maps, offset |-> offset]

\* PyTopographySurface::new (lines 393-416): the inner surface has the offset
\* 0 unless one is given.
new_surface(args, offset) == Surface(args, unwrap_or(offset, 0))

\* What an operator leaves: its left operand and the object it returns.
Operated(lhs, value) == [self |-> lhs, value |-> value]

\* (__add__ in place: the operand takes the new offset.)
surface_add_in_place(lhs, rhs) ==
    Operated(Surface(lhs.maps, fadd(lhs.offset, rhs)),
             Surface(lhs.maps, fadd(lhs.offset, rhs)))

\* PyTopographySurface::__add__, __radd__ and __sub__ (lines 418-432).
surface_add(lhs, rhs) == Operated(lhs, Surface(lhs.maps, fadd(lhs.offset, rhs)))

surface_radd(rhs, lhs) == surface_add(rhs, lhs)

surface_sub(lhs, rhs) == surface_add(lhs, 0 - rhs)

\* PyTopographyMap::__add__, __radd__ and __sub__ (lines 335-348).
map_add(lhs, rhs) == Operated(lhs, new_surface(<<lhs.name>>, Some(rhs)))

map_radd(rhs, lhs) == map_add(rhs, lhs)

map_sub(lhs, rhs) == map_add(lhs, 0 - rhs)

\* operand op a, for a map or a surface.
Operators == {"add", "radd", "sub"}

operate(op, operand, a) ==
    IF operand.kind = "Map"
    THEN IF op = "add" THEN map_add(operand, a)
         ELSE IF op = "radd" THEN map_radd(operand, a)
         ELSE map_sub(operand, a)
    ELSE IF op = "add" THEN surface_add(operand, a)
         ELSE IF op = "radd" THEN surface_radd(operand, a)
         ELSE surface_sub(operand, a)

-----------------------------------------------------------------------------
(* PyStratifiedGeometry::new (geometry.rs).                                *)

\* The objects the host passes to the constructor: sectors, interfaces (maps)
\* and objects that are neither.
Sector(material) == [kind |-> "Sector", material |-> material, density |-> 1]

Arguments ==
    {Sector(m) : m \in MaterialDefinitions} \cup {Map("land"), [kind |-> "Other"]}

\* The argument lists: up to MaxSectors sectors with an interface between
\* them, above and below.
ArgLists == UNION {[1..n -> Arguments] : n \in 0..(2 * MaxSectors + 1)}

\* args[j], the indices starting at 0.
at(args, j) == args[j + 1]

\* extract::<PyRef<PyGeometrySector>>() and extract::<MapOrSurface>() succeed.
is_sector(arg) == arg.kind = "Sector"

is_interface(arg) == arg.kind \in {"Map", "Surface"}

\* StratifiedGeometry: the sectors from top to bottom and the interfaces
\* around them, unbounded (None) or bounded by a surface.
\* StratifiedGeometry::new, set_bottom, push_layer and set_top.
stratified_new(sector) == [sectors |-> <<sector>>, interfaces |-> <<None, None>>]

set_bottom(inner, bottom) ==
    [inner EXCEPT !.interfaces[Len(inner.interfaces)] = Some(bottom)]

push_layer(inner, interface, sector) ==
    [sectors |-> <<sector>> \o inner.sectors,
     interfaces |-> <<None, Some(interface)>> \o Tail(inner.interfaces)]

set_top(inner, top) == [inner EXCEPT !.interfaces[1] = Some(top)]

\* (The loop over the layers, stopping at last = 2.)
RECURSIVE push_layers_above_two(_, _, _)
push_layers_above_two(args, inner, last) ==
    IF last > 2
    THEN IF ~is_interface(at(args, last - 1)) THEN Err("TypeError")
         ELSE IF ~is_sector(at(args, last - 2)) THEN Err("TypeError")
         ELSE push_layers_above_two(
                  args, push_layer(inner, at(args, last - 1), at(args, last - 2)),
                  last - 2)
    ELSE Ok([inner |-> inner, last |-> last])

\* The loop over the additional layers (lines 512-526): the geometry and the
\* index last it ends with.
RECURSIVE push_layers(_, _, _)
push_layers(args, inner, last) ==
    IF last > 1
    THEN IF ~is_interface(at(args, last - 1)) THEN Err("TypeError")
         ELSE IF ~is_sector(at(args, last - 2)) THEN Err("TypeError")
         ELSE push_layers(args, push_layer(inner, at(args, last - 1), at(args, last - 2)),
                          last - 2)
    ELSE Ok([inner |-> inner, last |-> last])

\* The last sector and the bottom interface (lines 486-500). n - 2 overflows
\* for a single argument that is no sector: the subtraction, or the indexing
\* that follows it, panics.
last_sector(args) ==
    LET n == Len(args) IN
    IF is_sector(at(args, n - 1)) THEN Ok([last |-> n - 1, bottom |-> None])
    ELSE IF ~is_interface(at(args, n - 1)) THEN Err("TypeError")
    ELSE IF n < 2 THEN Err("PanicException")
    ELSE IF ~is_sector(at(args, n - 2)) THEN Err("TypeError")
    ELSE Ok([last |-> n - 2, bottom |-> Some(at(args, n - 1))])

\* The exported sectors (lines 545-558) and compute_z_size (lines 595-597).
exported_sectors(inner) == inner.sectors

compute_z_size(inner) == Len(inner.sectors) + 1

\* PyStratifiedGeometry::new (lines 475-563).
new_stratified(args) ==
    IF Len(args) = 0 THEN Err("ValueError")
    ELSE LET first == last_sector(args) IN
    IF first.kind = "Err" THEN first
    ELSE LET bottom == first.value.bottom
             lowest == stratified_new(at(args, first.value.last))
             layers == push_layers(args,
                                   IF bottom = None THEN lowest
                                   ELSE set_bottom(lowest, bottom[1]),
                                   first.value.last)
         IN  IF layers.kind = "Err" THEN layers
             ELSE IF layers.value.last = 1
             THEN IF ~is_interface(at(args, 0)) THEN Err("TypeError")
                  ELSE LET inner == set_top(layers.value.inner, at(args, 0))
                       IN  Ok([inner |-> inner, sectors |-> exported_sectors(inner)])
             ELSE Ok([inner |-> layers.value.inner,
                      sectors |-> exported_sectors(layers.value.inner)])

-----------------------------------------------------------------------------
(* The calls of the host on the settings and on the engine.                *)

Setter(ret) ==
    /\ Idle
    /\ settings' = ret.self
    /\ result' = ret.result
    /\ NoBatch
    /\ UNCHANGED <<compiled, geometry, random, registered, tables, pickle, host_objects>>

SetMode == \E value \in ModeArgs : Setter(set_mode(settings, value))

SetComptonMode == \E value \in ComptonModeArgs : Setter(set_compton_mode(settings, value))

SetComptonMethod ==
    \E value \in ComptonMethodArgs : Setter(set_compton_method(settings, value))

SetComptonModel ==
    \E value \in ComptonModelArgs : Setter(set_compton_model(settings, value))

SetAbsorption ==
    \E value \in AbsorptionArgs : Setter(set_absorption(settings, value))

SetVolumeSources ==
    \E value \in {None, Some(TRUE), Some(FALSE)} :
        Setter(set_volume_sources(settings, value))

\* engine.geometry = value (__setattr__, lines 328-335).
SetGeometry ==
    \E value \in {None, Some(SimpleGeometry)} :
        /\ Idle
        /\ geometry' = value
        /\ result' = Ok(Unit)
        /\ NoBatch
        /\ UNCHANGED <<settings, compiled, random, registered, tables, pickle, host_objects>>

\* engine.compile(mode, atomic_data).
Compile ==
    \E mode \in CompileModeArgs, data_ok \in BOOLEAN :
        LET r == compile(settings.inner, geometry, registered, tables, compiled, mode,
                         data_ok)
        IN  /\ Idle
            /\ registered' = r.registered
            /\ tables' = r.tables
            /\ compiled' = r.compiled
            /\ result' = r.result
            /\ NoBatch
            /\ UNCHANGED <<settings, geometry, random, pickle, host_objects>>

\* The fields of the engine that are pickled.
Pickled == <<random, <<registered, tables>>, settings.inner, compiled>>

GetState ==
    /\ Idle
    /\ pickle' = Some(getstate(random, registered, tables, settings, compiled))
    /\ pickled' = Some(Pickled)
    /\ result' = Ok(Unit)
    /\ NoBatch
    /\ UNCHANGED <<engine_vars, external, surface, derived, stratified>>

\* __setstate__ with the bytes of the last __getstate__, whole or cut short
\* of their last byte.
SetState ==
    \E cut \in {0, 1} :
        LET bytes == SubSeq(pickle[1], 1, Len(pickle[1]) - cut)
            e == setstate(random, registered, tables, settings, compiled, bytes)
        IN  /\ Idle
            /\ pickle # None
            /\ random' = e.random
            /\ registered' = e.registered
            /\ tables' = e.tables
            /\ settings' = e.settings
            /\ compiled' = e.compiled
            /\ result' = e.result
            /\ loaded' =
                   LET after == <<e.random, <<e.registered, e.tables>>, e.settings.inner,
                                  e.compiled>>
                   IN  Some([ok |-> e.result.kind = "Ok",
                             same_bytes |-> getstate(e.random, e.registered, e.tables,
                                                     e.settings,
                                                     e.compiled) = bytes,
                             restored |-> after = pickled[1],
                             flag_follows |-> e.settings.volume_sources
                                                  = (e.settings.inner.constraint # None),
                             all_changed |-> \A j \in 1..4 : Pickled[j] # after[j]])
            /\ NoArrays
            /\ UNCHANGED <<geometry, pickle, external, surface, derived, stratified,
                           pickled>>

\* engine.random = value (__setattr__, line 336).
SetRandom ==
    \E value \in 0..MaxSeed :
        /\ Idle
        /\ random' = value
        /\ result' = Ok(Unit)
        /\ NoBatch
        /\ UNCHANGED <<settings, compiled, geometry, registered, tables, pickle, host_objects>>

\* ExternalGeometry(path): the host holds the new object.
NewExternal ==
    \E inner \in ExternalGeometries :
        /\ Idle
        /\ external' = Some(new_external(inner))
        /\ result' = Ok(Unit)
        /\ NoBatch
        /\ UNCHANGED <<engine_vars, pickle, surface, derived, stratified, pickled>>

\* external.update_material(index, material).
UpdateMaterial ==
    /\ Idle
    /\ external # None
    /\ \E index \in 0..Len(external[1].materials), material \in MaterialLike(external[1]) :
           LET r == update_material(external[1], index, material) IN
               /\ external' = Some([r.geometry EXCEPT
                                       !.call = Some(material_updated(external[1], index,
                                                                      material, r))])
               /\ result' = r.result
    /\ NoBatch
    /\ UNCHANGED <<engine_vars, pickle, surface, derived, stratified, pickled>>

\* external.update_sector(index, material, density).
UpdateSector ==
    /\ Idle
    /\ external # None
    /\ \E index \in 0..Len(external[1].sectors),
          material \in {None} \cup {Some(j) : j \in 0..Len(external[1].materials)},
          model \in {None} \cup {Some(d) : d \in Densities} :
           LET r == update_sector(external[1], index, material, model) IN
               /\ external' = Some([r.geometry EXCEPT
                                       !.call = Some(sector_updated(external[1], index,
                                                                    material, model, r))])
               /\ result' = r.result
    /\ NoBatch
    /\ UNCHANGED <<engine_vars, pickle, surface, derived, stratified, pickled>>

\* TopographySurface(*maps, offset=...) or a TopographyMap: the host holds
\* the new object.
NewSurface ==
    \E args \in MapArgs, offset \in {None} \cup {Some(x) : x \in SurfaceOffsets} :
        /\ Idle
        /\ surface' = Some(new_surface(args, offset))
        /\ derived' = None
        /\ result' = Ok(Unit)
        /\ NoBatch
        /\ UNCHANGED <<engine_vars, pickle, external, stratified, pickled>>

NewMap ==
    \E name \in TopographyMaps :
        /\ Idle
        /\ surface' = Some(Map(name))
        /\ derived' = None
        /\ result' = Ok(Unit)
        /\ NoBatch
        /\ UNCHANGED <<engine_vars, pickle, external, stratified, pickled>>

\* surface + a, a + surface or surface - a: the host holds the result, with
\* the operation it comes from.
Operate ==
    \E op \in Operators, a \in FiniteFloats :
        LET r == operate(op, surface[1], a) IN
            /\ Idle
            /\ surface # None
            /\ surface' = Some(r.self)
            /\ derived' = Some([op |-> op, a |-> a, of |-> surface[1], value |-> r.value])
            /\ result' = Ok(Unit)
            /\ NoBatch
            /\ UNCHANGED <<engine_vars, pickle, external, stratified, pickled>>

\* (surface + a) - a: the scalar of the last addition is subtracted from its
\* result.
OperateBack ==
    /\ Idle
    /\ derived # None
    /\ derived[1].op \in {"add", "radd"}
    /\ LET r == operate("sub", derived[1].value, derived[1].a) IN
           derived' = Some([op |-> "add_sub", a |-> derived[1].a, of |-> derived[1].of,
                            value |-> r.value])
    /\ result' = Ok(Unit)
    /\ NoBatch
    /\ UNCHANGED <<engine_vars, pickle, external, surface, stratified, pickled>>

\* StratifiedGeometry(*args), on the argument list the host has built.
NewStratified ==
    /\ Idle
    /\ stratified # None
    /\ stratified[1].built = None
    /\ stratified' = Some([stratified[1] EXCEPT
                              !.built = Some(new_stratified(stratified[1].args))])
    /\ result' = IF new_stratified(stratified[1].args).kind = "Ok" THEN Ok(Unit)
                 ELSE new_stratified(stratified[1].args)
    /\ NoBatch
    /\ UNCHANGED <<engine_vars, pickle, external, surface, derived, pickled>>

-----------------------------------------------------------------------------
(* PyUntypedArray and PyArray<T> (numpy.rs).                               *)

\* An array object: its shape and strides (in items), the address of its
\* first item, its WRITEABLE flag and the memory of the buffer it views.
\* The cell at the address a is memory[a + 1].
View(shape, strides, first, flag, cells) ==
    [shape |-> shape, strides |-> strides, data |-> first, writeable |-> flag,
     memory |-> [a \in 1..cells |-> a - 1]]

\* The arrays numpy hands over: of no, one and two axes, of extents 0 to
\* MaxDim; C-contiguous, transposed, reversed and sliced with a step of two,
\* the last two of two axes being read-only views.
Arrays ==
    LET dims == 0..MaxDim
        last(n) == IF n = 0 THEN 0 ELSE n - 1
    IN
           {View(<<>>, <<>>, 0, w, 1) : w \in BOOLEAN}
      \cup {View(<<n>>, <<1>>, 0, w, n) : n \in dims, w \in BOOLEAN}
      \cup {View(<<n>>, <<0 - 1>>, last(n), w, n) : n \in dims, w \in BOOLEAN}
      \cup {View(<<n>>, <<2>>, 0, w, 2 * n) : n \in dims, w \in BOOLEAN}
      \cup {View(<<n, m>>, <<m, 1>>, 0, w, n * m) : n, m \in dims, w \in BOOLEAN}
      \cup {View(<<n, m>>, <<1, n>>, 0, TRUE, n * m) : n, m \in dims}
      \cup {View(<<n, m>>, <<0 - m, 0 - 1>>, last(n * m), FALSE, n * m) :
                n, m \in dims}
      \cup {View(<<n, m>>, <<2 * m, 1>>, 0, FALSE, 2 * n * m) : n, m \in dims}

\* PyUntypedArray::size (lines 255-259): the product of the shape.
RECURSIVE product(_)
product(shape) == IF shape = <<>> THEN 1 ELSE Head(shape) * product(Tail(shape))

array_size(a) == product(a.shape)

\* (The loop of offset_of run from the first axis to the last.)
RECURSIVE offset_loop_forwards(_, _, _, _)
offset_loop_forwards(a, ax, remainder, offset) ==
    IF ax = 0 THEN offset
    ELSE LET k == Len(a.shape) + 1 - ax
             m == a.shape[k]
             j == remainder % m
         IN  offset_loop_forwards(a, ax - 1, (remainder - j) \div m,
                                  offset + j * a.strides[k])

\* (offset_of with the first axis varying fastest.)
offset_of_first_axis_fastest(a, index) ==
    IF Len(a.shape) = 0 THEN 0 ELSE offset_loop_forwards(a, Len(a.shape), index, 0)

\* The loop of PyUntypedArray::offset_of (lines 287-295), before the axis ax
\* (counted from 1) is handled; the axes are handled from the last to the
\* first.
RECURSIVE offset_loop(_, _, _, _)
offset_loop(a, ax, remainder, offset) ==
    IF ax = 0 THEN offset
    ELSE LET m == a.shape[ax]
             j == remainder % m
         IN  offset_loop(a, ax - 1, (remainder - j) \div m, offset + j * a.strides[ax])

\* PyUntypedArray::offset_of (lines 280-297).
offset_of(a, index) ==
    IF Len(a.shape) = 0 THEN 0 ELSE offset_loop(a, Len(a.shape), index, 0)

\* PyUntypedArray::data (lines 264-278): the address of the item.
data(a, index) ==
    IF index >= array_size(a) THEN Err("IndexError")
    ELSE Ok(a.data + offset_of(a, index))

\* PyArray::is_writeable (lines 537-544).
is_writeable(a) == IF ~a.writeable THEN Err("ValueError") ELSE Ok(Unit)

\* The outcome of get or set: the result, the array after the call and the
\* addresses the call has dereferenced.
Access(r, a, touched) == [result |-> r, array |-> a, touched |-> touched]

\* PyArray::get (lines 471-475).
get(a, index) ==
    LET address == data(a, index) IN
        IF address.kind = "Err" THEN Access(address, a, {})
        ELSE Access(Ok(a.memory[address.value + 1]), a, {address.value})

\* (set with the bounds checked before the flag.)
set_checks_bounds_first(a, index, value) ==
    LET address == data(a, index) IN
        IF address.kind = "Err" THEN Access(address, a, {})
        ELSE IF is_writeable(a).kind = "Err" THEN Access(is_writeable(a), a, {})
        ELSE Access(Ok(Unit), [a EXCEPT !.memory[address.value + 1] = value],
                    {address.value})

\* PyArray::set (lines 477-483).
set(a, index, value) ==
    LET address == data(a, index) IN
        IF is_writeable(a).kind = "Err" THEN Access(is_writeable(a), a, {})
        ELSE IF address.kind = "Err" THEN Access(address, a, {})
        ELSE Access(Ok(Unit), [a EXCEPT !.memory[address.value + 1] = value],
                    {address.value})

\* The host, or the core on its behalf, reads an item of the array.
Get ==
    \E index \in 0..(MaxDim * MaxDim + 1) :
        LET r == get(ndarray[1], index) IN
            /\ Idle
            /\ ndarray # NoArray
            /\ ndarray' = Some(r.array)
            /\ accessed' = Some([op |-> "get", index |-> index, result |-> r.result,
                                 touched |-> r.touched])
            /\ result' = IF r.result.kind = "Ok" THEN Ok(Unit) ELSE r.result
            /\ UNCHANGED <<engine_vars, pickle, pc, definition, states, input, writeable,
                           constraints, local_settings, status, sectors, i, ctrlc,
                           raised_at, calls, polls, writes, trace_vars, host_objects,
                           loaded, started>>

\* An item of the array is written: the value is the opposite of the index
\* plus one, which no cell holds at first.
Set ==
    \E index \in 0..(MaxDim * MaxDim + 1) :
        LET r == set(ndarray[1], index, 0 - (index + 1)) IN
            /\ Idle
            /\ ndarray # NoArray
            /\ ndarray' = Some(r.array)
            /\ accessed' = Some([op |-> "set", index |-> index, result |-> r.result,
                                 touched |-> r.touched])
            /\ result' = r.result
            /\ UNCHANGED <<engine_vars, pickle, pc, definition, states, input, writeable,
                           constraints, local_settings, status, sectors, i, ctrlc,
                           raised_at, calls, polls, writes, trace_vars, host_objects,
                           loaded, started>>

-----------------------------------------------------------------------------
(* Specifications.                                                         *)

InitHost ==
    /\ settings = new_settings
    /\ compiled = FALSE
    /\ geometry \in {None, Some(SimpleGeometry)}
    /\ random \in 0..MaxSeed
    /\ registered = {}
    /\ tables = {}
    /\ pickle = None
    /\ pc = "idle"
    /\ definition = SimpleGeometry
    /\ states = <<>>
    /\ input = <<>>
    /\ writeable = TRUE
    /\ constraints = None
    /\ local_settings = DefaultSettings
    /\ status = <<>>
    /\ sectors = <<>>
    /\ i = 0
    /\ result = Ok(Unit)
    /\ ctrlc = FALSE
    /\ raised_at = -1
    /\ calls = <<>>
    /\ polls = {}
    /\ writes = NoWrites
    /\ lengths = None
    /\ density = None
    /\ tracer = NoTracer
    /\ length = 0
    /\ grammages = <<>>
    /\ k_poll = 0
    /\ matrix = <<>>
    /\ supplied = 0
    /\ taken = 0
    /\ asked = None
    /\ at_poll = None
    /\ all_zero = FALSE
    /\ unpolled = 0
    /\ stepped = <<>>
    /\ external = NoExternal
    /\ surface = NoSurface
    /\ derived = None
    /\ pickled = None
    /\ loaded = None
    /\ accessed = None
    /\ started = None

\* A new engine, the host holding no geometry object and no array.
Init == InitHost /\ stratified = NoStratified /\ ndarray = NoArray

\* The settings object: its setters and the pickling of the engine.
NextSettings ==
    \/ SetMode
    \/ SetComptonMode
    \/ SetComptonMethod
    \/ SetVolumeSources
    \/ GetState
    \/ SetState

SpecSettings == Init /\ [][NextSettings]_vars

\* The setters of the settings object that take the name of an enumerator.
NextSetters ==
    \/ SetMode
    \/ SetComptonMode
    \/ SetComptonMethod
    \/ SetComptonModel
    \/ SetAbsorption
    \/ SetVolumeSources

SpecSetters == Init /\ [][NextSetters]_vars

\* The pickling of an engine whose fields all change.
NextPickle ==
    \/ SetMode
    \/ SetVolumeSources
    \/ SetRandom
    \/ Compile
    \/ GetState
    \/ SetState

SpecPickle == Init /\ [][NextPickle]_vars

\* The engine: settings changes, compile and small transport batches.
Next ==
    \/ SetMode
    \/ SetComptonMode
    \/ SetVolumeSources
    \/ SetGeometry
    \/ Compile
    \/ TransportBegin(SmallBatches)
    \/ TransportPhoton
    \/ TransportPoll
    \/ Return

Spec == Init /\ [][Next]_vars

\* A transport batch under cancellation: small batches and the long one.
NextCancel ==
    \/ SetMode
    \/ SetVolumeSources
    \/ TransportBegin(SmallBatches \cup LongBatches)
    \/ TransportPhoton
    \/ TransportPoll
    \/ RaiseCtrlC
    \/ Return

SpecCancel == Init /\ [][NextCancel]_vars

\* A locate batch.
NextLocate ==
    \/ LocateBegin(Geometries, LocateBatches)
    \/ LocatePhoton
    \/ LocatePoll
    \/ RaiseCtrlC
    \/ Return

InitLocate == Init /\ random = 0 /\ geometry = None

SpecLocate == InitLocate /\ [][NextLocate]_vars

\* A trace batch.
NextTrace ==
    \/ TraceBegin(TraceCalls)
    \/ TraceState
    \/ TraceStep
    \/ TracePoll
    \/ RaiseCtrlC
    \/ Return

SpecTrace == InitLocate /\ [][NextTrace]_vars

\* A trace batch that takes more steps than the poll period.
NextTraceLong ==
    \/ TraceBegin(TraceCalls \cup LongTraceCalls)
    \/ TraceState
    \/ TraceStep
    \/ TracePoll
    \/ Return

SpecTraceLong == InitLocate /\ [][NextTraceLong]_vars

\* An engine that holds a geometry.
InitBatches == Init /\ random = 0 /\ geometry = Some(SimpleGeometry)

\* A transport batch during which the host changes the settings.
NextSnapshot ==
    \/ SetMode
    \/ SetVolumeSources
    \/ TransportBegin(SmallBatches)
    \/ TransportPhoton
    \/ TransportPoll
    \/ ChangeSettings
    \/ Return

SpecSnapshot == InitBatches /\ [][NextSnapshot]_vars

\* Compilations of an engine whose settings the host changes.
NextCompile ==
    \/ SetMode
    \/ SetComptonMode
    \/ SetComptonMethod
    \/ SetGeometry
    \/ Compile

SpecCompile == Init /\ [][NextCompile]_vars

\* The three batch calls: transport, locate and trace.
NextBatches ==
    \/ TransportBegin(SmallBatches)
    \/ TransportPhoton
    \/ TransportPoll
    \/ LocateBegin(BatchGeometries, BatchLocateBatches)
    \/ LocatePhoton
    \/ LocatePoll
    \/ TraceBegin(BatchTraceCalls)
    \/ TraceState
    \/ TraceStep
    \/ TracePoll
    \/ Return

SpecBatches == InitBatches /\ [][NextBatches]_vars

\* An external geometry and its mutators.
NextExternal ==
    \/ NewExternal
    \/ UpdateMaterial
    \/ UpdateSector

SpecExternal == InitLocate /\ [][NextExternal]_vars

\* Surfaces, maps and their operators.
NextSurface ==
    \/ NewSurface
    \/ NewMap
    \/ Operate
    \/ OperateBack

SpecSurface == InitLocate /\ [][NextSurface]_vars

\* The items of an array, read and written through get and set.
InitArray ==
    /\ InitHost
    /\ random = 0
    /\ geometry = None
    /\ stratified = NoStratified
    /\ ndarray \in {Some(a) : a \in Arrays}

NextArray ==
    \/ Get
    \/ Set

SpecArray == InitArray /\ [][NextArray]_vars

\* The constructor of a stratified geometry, on every argument list.
InitStratified ==
    /\ InitHost
    /\ random = 0
    /\ geometry = None
    /\ stratified \in {Some([args |-> args, built |-> None]) : args \in ArgLists}
    /\ ndarray = NoArray

NextStratified == NewStratified

SpecStratified == InitStratified /\ [][NextStratified]_vars

-----------------------------------------------------------------------------
(* Properties.                                                             *)

\* The running or last call failed with the error e.
Failed(e) == result.kind = "Err" /\ result.value = e

Cancelled == Failed("KeyboardInterrupt")

\* Entry k (counted from 0) of the states array holds the value the agent
\* left, for the settings photon k was transported with.
Transported(k) ==
    /\ k + 1 <= Len(calls)
    /\ states[k + 1] = agent_state(calls[k + 1].settings, input[k + 1])
    /\ states[k + 1] # input[k + 1]

Untouched(k) == states[k + 1] = input[k + 1]

\* C1: in every state of the settings reached from new() by setter calls,
\* mode = Backward comes with compton_mode in {Adjoint, Inverse, None} and
\* mode = Forward with compton_mode in {Direct, None}.
C1_ModeComptonModeInv ==
    /\ settings.inner.mode = "Backward"
           => settings.inner.compton_mode \in {"Adjoint", "Inverse", "None"}
    /\ settings.inner.mode = "Forward"
           => settings.inner.compton_mode \in {"Direct", "None"}

\* set_mode("Backward") has coerced Direct to Adjoint.
C1_Witness ==
    /\ settings.inner.mode = "Backward"
    /\ settings.inner.compton_mode = "Adjoint"
    /\ settings.inner.compton_method = "RejectionSampling"
    /\ result.kind = "Ok"

\* C2: in every state of the settings reached from new() by setter calls,
\* compton_mode = Inverse comes with compton_method = InverseTransform.
C2_InverseImpliesInverseTransform ==
    settings.inner.compton_mode = "Inverse"
        => settings.inner.compton_method = "InverseTransform"

\* C3: the probe is polled at the photons whose index is a multiple of 100
\* and at no other, after the state and the status of that photon were
\* written; when it signals at photon i, transport fails with the
\* cancellation error, the states 0..i hold their transported values and the
\* states after i their input values.
C3_PollEvery100 ==
    /\ pc \in {"transport", "transport_poll"}
           => polls = {k \in 0..(i - 1) : k % 100 = 0}
    /\ pc = "transport_poll"
           => /\ i % 100 = 0
              /\ Transported(i)
              /\ status[i + 1] # NoStatus
    /\ (pc = "done" /\ Cancelled)
           => /\ i % 100 = 0
              /\ polls = {k \in 0..i : k % 100 = 0}
              /\ \A k \in 0..i : Transported(k)
              /\ \A k \in (i + 1)..(Len(states) - 1) : Untouched(k)
    /\ (pc = "done" /\ result.kind = "Ok" /\ Len(states) > 0)
           => polls = {k \in 0..(Len(states) - 1) : k % 100 = 0}

\* The probe signalled at photon 100 of the long batch.
C3_Witness ==
    /\ pc = "done"
    /\ Cancelled
    /\ i = 100
    /\ Len(states) > 101
    /\ polls = {0, 100}

\* The host raised the flag during this batch, while photon raised_at was
\* being transported or polled and a later photon was still to be started.
RaisedMidBatch == raised_at >= 0 /\ raised_at < Len(states) - 1

\* No photon of the batch failed: no agent error, no write refused by a
\* read-only states array.
NoPhotonFailed == ~Failed("AgentError") /\ ~Failed("ValueError")

SomeWritten == \E k \in 0..(Len(states) - 1) : Transported(k)

SomeUntouched == \E k \in 0..(Len(states) - 1) : Untouched(k) /\ k + 1 > Len(calls)

\* C4 (as stated): for a batch of any size, when the host raises the flag
\* mid-batch (and every photon transports without error), the call fails with
\* the cancellation error, at least one state has been written and at least
\* one has not been touched.
C4_AnySizeCancelled ==
    (pc = "done" /\ RaisedMidBatch /\ NoPhotonFailed)
        => Cancelled /\ SomeWritten /\ SomeUntouched

\* A poll is still to come, at a photon before the last one, when the flag is
\* raised.
PollAhead == \E p \in raised_at..(Len(states) - 2) : p % 100 = 0

\* C4 (amended): when the host raises the flag mid-batch while a poll is still
\* to come at a photon p < n - 1 (p a multiple of 100), and no photon fails
\* before that poll (no agent error, a writeable states array), the call
\* fails with the cancellation error, at least one state has been written
\* and at least one has not been touched.
C4_CancelledAtNextPoll ==
    (pc = "done" /\ RaisedMidBatch /\ NoPhotonFailed /\ PollAhead)
        => Cancelled /\ SomeWritten /\ SomeUntouched

\* The flag was raised after the first poll and the batch was cancelled at
\* photon 100.
C4_Witness ==
    /\ pc = "done"
    /\ raised_at >= 1
    /\ Cancelled
    /\ i = 100
    /\ SomeWritten
    /\ SomeUntouched

\* C5: when the agent returns an error for photon i, transport returns that
\* error at once: the states before i hold their transported values, the
\* states from i on their input values, photon i was the last one handed to
\* the agent and no status array is returned.
C5_AgentErrorAborts ==
    (pc = "done" /\ Failed("AgentError"))
        => /\ \A k \in 0..(i - 1) : Transported(k)
           /\ \A k \in i..(Len(states) - 1) : Untouched(k)
           /\ Len(calls) = i + 1
           /\ calls[i + 1].index = i

\* The agent failed on a photon that is neither the first nor the last.
C5_Witness ==
    /\ pc = "done"
    /\ Failed("AgentError")
    /\ i >= 1
    /\ i + 1 < Len(states)

\* C6: whenever transport runs the agent on a photon, the tables of the
\* transport mode and Compton mode of the settings in use have been
\* computed.
C6_TablesComputed ==
    \A k \in 1..Len(calls) : TableKey(calls[k].settings) \in tables

\* C7: when sources_energies is supplied, photon i is transported with
\* constraint sources_energies[i] (an array) or the scalar, in Backward mode
\* with volume sources enabled; when it is not supplied, every photon is
\* transported with a null constraint.
C7_ConstraintPerPhoton ==
    \A k \in 1..Len(calls) :
        /\ calls[k].index = k - 1
        /\ constraints = None => calls[k].settings.constraint = None
        /\ constraints # None
               => /\ calls[k].settings.mode = "Backward"
                  /\ settings.volume_sources
                  /\ constraints[1].tag = "Array"
                         => calls[k].settings.constraint = Some(constraints[1].array[k])
                  /\ constraints[1].tag = "Float"
                         => calls[k].settings.constraint = Some(constraints[1].scalar)

\* Two photons were transported, each with its own source energy.
C7_Witness ==
    /\ constraints # None
    /\ constraints[1].tag = "Array"
    /\ Len(calls) = 2
    /\ calls[1].settings.constraint # calls[2].settings.constraint
    /\ result.kind = "Ok"
    /\ pc = "done"

\* C8: a transport call that supplies sources_energies while the mode is
\* Forward, or while the constraint of the settings is null, returns an error;
\* no photon is transported and no state is written.
C8_InconsistentConstraintsRejected ==
    (pc # "idle" /\ constraints # None
        /\ (settings.inner.mode = "Forward" \/ settings.inner.constraint = None))
        => /\ pc = "done"
           /\ result.kind = "Err"
           /\ calls = <<>>
           /\ states = input

\* A consistent-size sources_energies was rejected in Forward mode, on an
\* engine that has a geometry and volume sources enabled.
C8_Witness ==
    /\ pc = "done"
    /\ constraints # None
    /\ check_size(states, constraints).kind = "Ok"
    /\ Len(states) > 0
    /\ geometry # None
    /\ settings.inner.mode = "Forward"
    /\ settings.volume_sources
    /\ Failed("ValueError")

\* C9: set_volume_sources(true) sets the constraint to 1.0,
\* set_volume_sources(false or None) sets it to null; in every state reached
\* from new() by setters and __setstate__ the flag is true exactly when the
\* constraint is non-null; a fresh settings object has the flag true and the
\* constraint 1.0.
C9_VolumeSourcesInv ==
    /\ settings.volume_sources <=> settings.inner.constraint # None
    /\ Init => (settings.volume_sources /\ settings.inner.constraint = Some(1))
    /\ set_volume_sources(settings, Some(TRUE)).self.inner.constraint = Some(1)
    /\ set_volume_sources(settings, Some(TRUE)).self.volume_sources
    /\ \A value \in {None, Some(FALSE)} :
           /\ set_volume_sources(settings, value).self.inner.constraint = None
           /\ ~set_volume_sources(settings, value).self.volume_sources

\* Volume sources were disabled by the setter (nothing was ever pickled).
C9_Witness ==
    /\ ~settings.volume_sources
    /\ settings.inner.constraint = None
    /\ pickle = None

\* C10: locate writes output[i] = k when the tracer, reset to the position and
\* direction of state i, reports sector k, and len(sectors) when it reports
\* outside; every entry written lies in 0..len(sectors), and the array
\* returned is written in full.
C10_LocateSentinel ==
    LET m == num_sectors(definition) IN
    /\ \A k \in 1..Len(sectors) :
           sectors[k] # NoSector
               => LET sector == tracer_reset(definition, input[k].position,
                                             input[k].direction).value
                  IN  /\ sectors[k] \in 0..m
                      /\ sector = None <=> sectors[k] = m
                      /\ sector # None => sectors[k] = sector[1]
                      /\ sectors[k] < m => InSector(definition, sectors[k], input[k].position)
    /\ (pc = "done" /\ result.kind = "Ok")
           => /\ result.value = sectors
              /\ \A k \in 1..Len(sectors) : sectors[k] # NoSector

\* A batch on a stratified geometry located one photon inside and one
\* outside.
C10_Witness ==
    /\ pc = "done"
    /\ result.kind = "Ok"
    /\ definition.kind = "Stratified"
    /\ \E k \in 1..Len(sectors) : sectors[k] = num_sectors(definition)
    /\ \E k \in 1..Len(sectors) : sectors[k] \in 0..(num_sectors(definition) - 1)

\* The sum of the steps recorded in row j (counted from 0) of the result of
\* trace: the entries, each divided by the density of its sector when the
\* column depth was asked for.
RECURSIVE RowSteps(_, _)
RowSteps(j, n) ==
    IF n = 0 THEN 0
    ELSE LET v == matrix[j * num_sectors(definition) + n]
         IN  RowSteps(j, n - 1)
                 + (IF unwrap_or(density, FALSE)
                    THEN v \div sector_density(definition, n - 1) ELSE v)

\* The loop over state i - 1 has ended and its row is written.
RowWritten ==
    /\ i >= 1
    /\ pc = "trace" \/ (pc = "done" /\ result.kind = "Ok" /\ matrix # <<>>)

\* C11: with a length supplied for state i, the tracer is never asked to
\* advance more than the remaining length, the remaining length is
\* decremented by every step, and the loop stops as soon as a step leaves it
\* <= 0; the sum of the steps of state i never exceeds the supplied length and equals
\* it when the photon did not leave the geometry first (a Simple geometry
\* with density 1 gives the length).
C11_LengthBudget ==
    lengths # None
        => /\ asked # None
                  => /\ asked[1][2] <= asked[1][1]
                     /\ length = fsub(asked[1][1], asked[1][2])
                     /\ asked[1][1] = fsub(supplied, fsub(taken, asked[1][2]))
           /\ fadd(length, taken) = supplied
           /\ taken <= supplied
           /\ (pc \in {"trace_loop", "trace_poll"} /\ asked # None) => length > 0
           /\ RowWritten
                  => /\ RowSteps(i - 1, num_sectors(definition)) = taken
                     /\ tracer.sector # None => taken = supplied
                     /\ (definition = SimpleGeometry /\ input[i].direction # 0)
                            => matrix[i] = supplied

\* A Simple geometry with lengths = MaxLength and the density asked for.
C11_Witness ==
    /\ pc = "done"
    /\ result.kind = "Ok"
    /\ definition = SimpleGeometry
    /\ lengths = Some(Float(MaxLength))
    /\ density = Some(TRUE)
    /\ Len(states) = MaxTrace
    /\ \A j \in 1..Len(matrix) : matrix[j] = MaxLength

\* The loop is back in the state it was in at the last poll: from here on it
\* repeats the same iterations.
Recurred ==
    /\ pc = "trace_poll"
    /\ at_poll # None
    /\ at_poll[1] = LoopState(0)

\* C12: when the host never signals cancellation, the loop over a state
\* ends, for every state and every geometry: it never comes back to a state
\* it was in (the tracer making regular steps).
C12_TraceLoopTerminates ==
    (raised_at = -1 /\ ~tracer.grazing) => ~Recurred

\* C13: when the tracer keeps returning zero-length steps in the same
\* sector, the driver raises NumericalInstability after a bounded number of
\* them: it is never back in the state it was in at the last poll with
\* nothing but zero-length steps in between.
C13_ZeroStepsBounded ==
    (pc = "trace_poll" /\ all_zero /\ tracer.grazing) => ~Recurred

\* C14: the bytes of __getstate__, loaded with __setstate__ and serialised
\* again, are identical to the first bytes: the random stream, the registry,
\* the settings and the compiled flag are those of the pickled engine, and
\* the restored volume_sources flag equals (constraint is non-null).
C14_PickleRoundTrip ==
    (loaded # None /\ loaded[1].ok)
        => /\ loaded[1].same_bytes
           /\ loaded[1].restored
           /\ loaded[1].flag_follows

\* An engine was restored from bytes that differ from it in the random
\* stream, the registry, the settings and the compiled flag.
C14_Witness ==
    /\ loaded # None
    /\ loaded[1].ok
    /\ loaded[1].all_changed
    /\ loaded[1].same_bytes

\* C15: from every state of the engine and for every argument list, a second
\* compile with the same arguments leaves the engine as the first one left
\* it: the same materials in the registry, the same computed table
\* configurations and the same compiled flag, which is true when the calls
\* succeed.
C15_CompileTwice ==
    \A mode \in CompileModeArgs, data_ok \in BOOLEAN :
        LET once == compile(settings.inner, geometry, registered, tables, compiled,
                            mode, data_ok)
            twice == compile(settings.inner, geometry, once.registered, once.tables,
                             once.compiled, mode, data_ok)
        IN  /\ twice = once
            /\ once.result.kind = "Ok" => twice.compiled

\* compile has filled the registry of an engine with a geometry: a second
\* compile finds the materials and the tables of the first.
C15_Witness ==
    /\ pc = "idle"
    /\ result = Ok(Unit)
    /\ compiled
    /\ geometry # None
    /\ registered # {}
    /\ Cardinality(tables) > 1

\* C16: after a successful update_material(i, m) the exported materials[i]
\* reads m, the other entries, the material index and the density of every
\* sector are unchanged and the sectors that refer to the material i show m;
\* when the inner update fails the exported materials are unchanged.
C16_UpdateMaterial ==
    (external # None /\ external[1].call # None
         /\ external[1].call[1].op = "update_material")
        => LET c == external[1].call[1]
           IN  /\ c.read_back
               /\ c.others_same
               /\ c.sectors_same
               /\ c.shown

\* update_material has changed a material that a sector refers to.
C16_Witness ==
    /\ external # None
    /\ external[1].call # None
    /\ external[1].call[1].op = "update_material"
    /\ external[1].call[1].ok
    /\ external[1].call[1].changed
    /\ external[1].call[1].referred
    /\ Len(external[1].materials) > 1

\* C17: the exported view follows the inner geometry: the material of the
\* exported sector k is the entry of the exported materials at the material
\* index of the inner sector k, its density is the inner density; and
\* update_sector changes the supplied fields of the sector at the index, and
\* nothing else.
C17_ExportedViewConsistent ==
    external # None
        => LET e == external[1]
           IN  /\ Len(e.sectors) = Len(e.inner.sectors)
               /\ \A k \in 1..Len(e.sectors) :
                      /\ e.sectors[k].material = e.materials[e.inner.sectors[k].material + 1]
                      /\ e.sectors[k].density = e.inner.sectors[k].density
               /\ (e.call # None /\ e.call[1].op = "update_sector")
                      => e.call[1].others_same /\ e.call[1].supplied_only

\* update_sector has changed the material and the density of a sector.
C17_Witness ==
    /\ external # None
    /\ external[1].call # None
    /\ external[1].call[1].op = "update_sector"
    /\ external[1].call[1].changed
    /\ Len(external[1].sectors) > 1

\* The result of an operator on a surface or a map: a new surface with the
\* maps of the operand (the map itself for a map) and the offset moved by the
\* scalar, the operand being left as it was.
OperatorResult ==
    (derived # None /\ derived[1].op \in Operators)
        => LET d == derived[1]
               a == IF d.op = "sub" THEN 0 - d.a ELSE d.a
           IN  /\ surface = Some(d.of)
               /\ d.value.kind = "Surface"
               /\ d.of.kind = "Surface"
                      => /\ d.value.maps = d.of.maps
                         /\ d.value.offset = fadd(d.of.offset, a)
               /\ d.of.kind = "Map"
                      => /\ d.value.maps = <<d.of.name>>
                         /\ d.value.offset = a

\* The sum of two floats is a finite float: the addition neither rounds nor
\* overflows.
ExactSum(x, y) == x + y \in FiniteFloats

\* C18 as stated: s + a, a + s and s - a are new surfaces with the maps of s
\* and the offset s.offset + a (s.offset - a), s is unchanged, m + a is a
\* one-map surface that holds m with the offset a, and (s + a) - a has the
\* offset of s.
C18_AddThenSubRestores ==
    /\ OperatorResult
    /\ (derived # None /\ derived[1].op = "add_sub" /\ derived[1].of.kind = "Surface")
           => derived[1].value.offset = derived[1].of.offset

\* C18, amended: as above, and (s + a) - a has the offset of s when the sum
\* s.offset + a is a finite float, that is when the addition neither rounds
\* nor overflows.
C18_ScalarOperators ==
    /\ OperatorResult
    /\ (derived # None /\ derived[1].op = "add_sub" /\ derived[1].of.kind = "Surface"
            /\ ExactSum(derived[1].of.offset, derived[1].a))
           => /\ derived[1].value.offset = derived[1].of.offset
              /\ derived[1].value.maps = derived[1].of.maps

\* (s + a) - a on a two-map surface whose offset is not zero, with a sum that
\* is a finite float.
C18_Witness ==
    /\ derived # None
    /\ derived[1].op = "add_sub"
    /\ derived[1].of.kind = "Surface"
    /\ Len(derived[1].of.maps) = 2
    /\ derived[1].of.offset # 0
    /\ derived[1].a # 0
    /\ ExactSum(derived[1].of.offset, derived[1].a)
    /\ derived[1].value = derived[1].of

\* The sectors of an argument list, and the lists that alternate sectors and
\* interfaces around at least one sector.
SectorsOf(args) == {j \in 1..Len(args) : is_sector(args[j])}

Alternating(args) ==
    /\ SectorsOf(args) # {}
    /\ \A j \in 1..Len(args) : is_sector(args[j]) \/ is_interface(args[j])
    /\ \A j \in 1..(Len(args) - 1) : is_sector(args[j]) # is_sector(args[j + 1])

C20_EveryEntryWrittenOnce ==
    (pc = "done" /\ result.kind = "Ok" /\ Len(writes.status) = Len(states))
        => /\ Len(result.value) = Len(states)
           /\ \A j \in 1..Len(states) :
                  /\ writes.status[j] = 1
                  /\ writes.states[j] = 1
                  /\ result.value[j] # NoStatus
                  /\ try_into(result.value[j]).kind = "Ok"
                  /\ into_i32(try_into(result.value[j]).value) = result.value[j]
           /\ \A flag \in {TransportStatuses[j] : j \in 1..Len(TransportStatuses)} :
                  try_into(into_i32(flag)) = Ok(flag)

\* transport has returned the statuses of the largest small batch, of
\* photons that ended with different statuses.
C20_Witness ==
    /\ pc = "done"
    /\ result.kind = "Ok"
    /\ Len(states) = MaxStates
    /\ Len(result.value) = MaxStates
    /\ Len(writes.status) = MaxStates
    /\ \E j, k \in 1..MaxStates : result.value[j] # result.value[k]

\* C21: a transport call on an engine whose geometry is not set returns an
\* error whatever the states, the source energies and the state of the
\* engine are; no photon is handed to the agent and the states array is as
\* it was when the call started.
C21_NoGeometryFails ==
    (pc # "idle" /\ geometry = None)
        => /\ pc = "done"
           /\ result.kind = "Err"
           /\ calls = <<>>
           /\ states = input
           /\ \A j \in 1..Len(states) : writes.states[j] = 0

\* transport was called with the largest small batch, a writeable array and
\* no geometry, on an engine that was compiled before, and failed with the
\* type error of the missing geometry.
C21_Witness ==
    /\ pc = "done"
    /\ geometry = None
    /\ compiled
    /\ writeable
    /\ Len(states) = MaxStates
    /\ Failed("TypeError")
    /\ calls = <<>>

\* The multi-indices of an array of this shape, and their row-major (C)
\* order: the last axis varies fastest.
MultiIndices(shape) ==
    {x \in [1..Len(shape) -> 0..MaxDim] : \A d \in 1..Len(shape) : x[d] < shape[d]}

RowMajorBefore(x, y) ==
    \E d \in 1..Len(x) : x[d] < y[d] /\ \A e \in 1..(d - 1) : x[e] = y[e]

\* The item of the flat index: the one that has index items before it.
ItemAt(shape, index) ==
    CHOOSE y \in MultiIndices(shape) :
        Cardinality({x \in MultiIndices(shape) : RowMajorBefore(x, y)}) = index

\* The address of an item: the strides applied to its multi-index.
RECURSIVE Strided(_, _, _)
Strided(strides, x, d) ==
    IF d = 0 THEN 0 ELSE x[d] * strides[d] + Strided(strides, x, d - 1)

AddressOf(a, index) ==
    a.data + Strided(a.strides, ItemAt(a.shape, index), Len(a.shape))

FlatIndices == 0..(MaxDim * MaxDim + 1)

\* What holds of get for every index, and of set on a writeable array.
BoundsEnforced(a, index) ==
    LET value == 0 - (index + 1)
        read == get(a, index)
        written == set(a, index, value)
    IN  /\ index >= array_size(a)
            => /\ read = Access(Err("IndexError"), a, {})
               /\ a.writeable => written = Access(Err("IndexError"), a, {})
        /\ ~a.writeable
            => /\ written.result.kind = "Err"
               /\ written.array = a
               /\ written.touched = {}
        /\ index < array_size(a)
            => /\ read = Access(Ok(a.memory[AddressOf(a, index) + 1]), a,
                                {AddressOf(a, index)})
               /\ a.writeable
                    => written = Access(Ok(Unit),
                                        [a EXCEPT !.memory[AddressOf(a, index) + 1] = value],
                                        {AddressOf(a, index)})

\* C22 (as stated): every get and every set with a flat index at or beyond
\* the size returns an index error, touches no memory and leaves the array as
\* it is; every set on a read-only array returns an error and leaves the array
\* as it is; an index below the size reaches the item at its row-major
\* position.
C22_IndexErrorBeyondSize ==
    ndarray # NoArray
        => \A index \in FlatIndices :
               /\ BoundsEnforced(ndarray[1], index)
               /\ index >= array_size(ndarray[1])
                    => set(ndarray[1], index, 0).result = Err("IndexError")

\* C22 (amended): as stated, but for a set on a read-only array: it returns
\* the value error of the read-only array whatever the index is, beyond the
\* size too, since set tests the flag before the bounds.
C22_BoundsAndFlagEnforced ==
    ndarray # NoArray
        => \A index \in FlatIndices :
               /\ BoundsEnforced(ndarray[1], index)
               /\ ~ndarray[1].writeable
                    => set(ndarray[1], index, 0).result = Err("ValueError")

\* An item of a transposed array of two axes was written at the flat index
\* 1, which is another item when the first axis varies fastest.
C22_Witness ==
    /\ ndarray # NoArray
    /\ accessed # None
    /\ ndarray[1].shape = <<MaxDim, MaxDim>>
    /\ ndarray[1].strides = <<1, MaxDim>>
    /\ accessed[1].op = "set"
    /\ accessed[1].index = 1
    /\ accessed[1].result = Ok(Unit)
    /\ accessed[1].touched = {MaxDim}
    /\ ndarray[1].memory[MaxDim + 1] = 0 - 2

\* A set beyond the size of a read-only array has returned its error.
C22_ReadOnlyWitness ==
    /\ ndarray # NoArray
    /\ accessed # None
    /\ ~ndarray[1].writeable
    /\ accessed[1].op = "set"
    /\ accessed[1].index >= array_size(ndarray[1])
    /\ accessed[1].result = Err("ValueError")

\* The calls of the five setters with a string that names no enumerator.
UnknownEnumerator(self) ==
    {set_mode(self, "Bogus"), set_compton_mode(self, Some("Bogus")),
     set_compton_method(self, "Bogus"), set_compton_model(self, "Bogus"),
     set_absorption(self, Some("Bogus"))}

\* C23: set_mode, set_compton_mode, set_compton_method, set_compton_model
\* and set_absorption, called with a string that names no enumerator, return
\* an error and leave the settings as they are, the fields they would coerce
\* included; so they do on the settings every accepted call leaves.
C23_UnknownEnumeratorRejected ==
    /\ \A ret \in UnknownEnumerator(settings) :
           /\ ret.result = Err("ValueError")
           /\ ret.self = settings
    /\ \A self \in {set_mode(settings, m).self : m \in TransportModes}
                 \cup {set_compton_mode(settings, Some(m)).self : m \in ComptonModes} :
           \A ret \in UnknownEnumerator(self) :
               ret.result = Err("ValueError") /\ ret.self = self

\* A setter has failed on settings that differ from the new ones in every
\* field an enumerator setter writes, and whose Compton mode set_mode
\* would coerce had the mode been accepted.
C23_Witness ==
    /\ Failed("ValueError")
    /\ settings.inner.mode = "Backward"
    /\ settings.inner.compton_mode = "Inverse"
    /\ settings.inner.compton_method = "InverseTransform"
    /\ settings.inner.compton_model = "Penelope"
    /\ settings.inner.absorption = "None"
    /\ ~settings.volume_sources

\* C24: in a trace batch, counted over all its states, the cancellation
\* probe is called before more than 1000 calls of tracer.trace were made
\* since the last probe (or since the start of the batch); the steps that end
\* the loop of a state because its length is exhausted count as well.
C24_ProbeEvery1000Steps == unpolled <= TracePeriod

\* The entries of an output array that were written are the first k ones.
WrittenPrefix(out, unwritten, k) ==
    \A j \in 1..Len(out) : (out[j] # unwritten) <=> (j <= k)

\* C25: locate, trace and transport take the states in increasing index
\* order, the output of state i being written before state i + 1 is read: at
\* every moment of a batch the written entries of the output (the statuses
\* and the states written back by transport, the sectors of locate, the rows
\* of trace) are those of the states before i, or up to i once the output of
\* state i is written; the agent was handed the states 0, 1, 2, ... in turn.
C25_OutputsArePrefix ==
    /\ Len(writes.states) > 0
        => /\ \E k \in {i, i + 1} :
                  /\ WrittenPrefix(status, NoStatus, k)
                  /\ WrittenPrefix(writes.status, 0, k)
                  /\ WrittenPrefix(writes.states, 0, k)
           /\ \A j \in 1..Len(calls) : calls[j].index = j - 1
           /\ Len(calls) \in {i, i + 1}
    /\ Len(sectors) > 0 => \E k \in {i, i + 1} : WrittenPrefix(sectors, NoSector, k)
    /\ Len(matrix) > 0 => WrittenPrefix(matrix, NoGrammage, i * num_sectors(definition))

\* A trace batch of the largest size on the deepest stack is between its
\* first and its second state: the first row is written, with a step in it.
C25_Witness ==
    /\ pc = "trace_loop"
    /\ i = 1
    /\ Len(states) = MaxTrace
    /\ num_sectors(definition) = MaxSectors
    /\ Len(matrix) = MaxTrace * MaxSectors
    /\ \E j \in 1..MaxSectors : matrix[j] > 0
    /\ \A j \in (MaxSectors + 1)..Len(matrix) : matrix[j] = NoGrammage

\* The entry of sector s (counted from 0) in the row of the state before i.
RowEntry(s) == matrix[(i - 1) * num_sectors(definition) + s + 1]

\* The sum of the first n entries of that row, in Float arithmetic.
RECURSIVE RowSum(_)
RowSum(n) == IF n = 0 THEN 0 ELSE fadd(RowSum(n - 1), RowEntry(n - 1))

\* The sectors a vertical ray that starts in the sector s0 never visits:
\* those below it for a ray that goes up, those above it for one that goes
\* down; all of them for a ray that starts outside.
NeverVisited(s0, direction) ==
    {s \in 0..(num_sectors(definition) - 1) :
         \/ s0 = None
         \/ s0 # None /\ direction = 1 /\ s > s0[1]
         \/ s0 # None /\ direction = 0 - 1 /\ s < s0[1]}

\* C26: the row trace writes for a state with density = false holds, for
\* each sector, the sum of the steps the tracer returned while it reported
\* that sector before the step; the sectors the ray never visits hold 0, and
\* the row sums to the total of the steps taken from the reset on.
C26_RowBySectorBeforeStep ==
    (RowWritten /\ ~unwrap_or(density, FALSE) /\ matrix # <<>>)
        => /\ \A s \in 0..(num_sectors(definition) - 1) : RowEntry(s) = stepped[s + 1]
           /\ \A s \in NeverVisited(tracer_reset(definition, input[i].position,
                                                 input[i].direction).value,
                                    input[i].direction) : RowEntry(s) = 0
           /\ RowSum(num_sectors(definition)) = taken

\* A ray has crossed the deepest stack from its lowest layer upwards, with no
\* length supplied: the row holds the thickness of every layer.
C26_Witness ==
    /\ RowWritten
    /\ lengths = None
    /\ ~unwrap_or(density, FALSE)
    /\ num_sectors(definition) = MaxSectors
    /\ definition.interfaces[1] # None
    /\ input[i].position = 0
    /\ input[i].direction = 1
    /\ \A s \in 0..(MaxSectors - 1) : RowEntry(s) = 1
    /\ taken = MaxSectors

\* C27: a transport batch runs on the settings as they were when it started:
\* every photon is transported with those settings (and its own source
\* energy), also the photons transported after the host has changed the
\* settings of the engine inside the probe; and the engine's settings object
\* is at every moment as the host has left it, transport writing none of its
\* fields.
C27_SettingsSnapshot ==
    started # None
        => /\ settings = started[1].by_host
           /\ \A j \in 1..Len(calls) :
                  calls[j].settings =
                      photon_settings(clone_settings(started[1].at_start.inner, constraints),
                                      constraints, j - 1)

\* The host has changed the mode and the constraint of the engine's settings
\* inside the probe that follows the first photon of a backward batch with
\* source energies, and the batch has transported the other photons and
\* returned.
C27_Witness ==
    /\ pc = "done"
    /\ result.kind = "Ok"
    /\ started # None
    /\ Len(calls) = MaxStates
    /\ constraints # None
    /\ started[1].at_start.inner.mode = "Backward"
    /\ settings.inner.mode = "Forward"
    /\ settings.inner.constraint = None
    /\ calls[MaxStates].settings.mode = "Backward"


\* The call that ends in this step is a transport call that fails on one of
\* its checks, before the first photon.
FailsBeforeFirstPhoton ==
    /\ Idle
    /\ started' # None
    /\ pc' = "done"
    /\ result'.kind = "Err"
    /\ calls' = <<>>
    /\ \/ check_size(input', constraints').kind = "Err"
       \/ check_geometry(geometry).kind = "Err"
       \/ check_constraints(clone_settings(settings.inner, constraints'),
                            constraints').kind = "Err"

\* C28: a transport call that fails on the size of the source energies, on
\* the missing geometry or on source energies that the settings do not allow
\* leaves the compiled flag and the registry (materials and tables) as they
\* were when it was called.
C28_FailedCallLeavesEngine ==
    [][FailsBeforeFirstPhoton
           => /\ compiled' = compiled
              /\ registered' = registered
              /\ tables' = tables]_vars

\* The invariants of a settings value.
SettingsInvariants(s) ==
    /\ s.mode = "Forward" => s.compton_mode \in {"Direct", "None"}
    /\ s.mode = "Backward" => s.compton_mode \in {"Adjoint", "Inverse", "None"}
    /\ s.compton_mode = "Inverse" => s.compton_method = "InverseTransform"

\* What compile passes to registry.compute for a CompileMode, on the
\* settings of the engine as they are.
ComputeArgsWellFormed(cmode) ==
    LET args == computed_settings(settings.inner, cmode) IN
        /\ \A s \in args : SettingsInvariants(s)
        /\ (\E s \in args : s.mode = "Forward") <=> cmode \in {"Forward", "Both", "All"}
        /\ (\E s \in args : s.mode = "Backward") <=> cmode \in {"Backward", "Both", "All"}
        /\ cmode = "All"
               => \E s \in args : s.mode = "Backward" /\ s.compton_mode = "Inverse"
        /\ \A s \in args :
               [s EXCEPT !.mode = "Forward", !.compton_mode = "None",
                         !.compton_method = "InverseTransform"]
                   = [settings.inner EXCEPT !.mode = "Forward", !.compton_mode = "None",
                                            !.compton_method = "InverseTransform"]

\* A call of compile has ended in this step: it alone writes the flag and
\* the registry of an engine that is not restored from bytes.
CompileStep ==
    compiled' # compiled \/ tables' # tables \/ registered' # registered

\* C29: whatever the settings of the engine, the settings values that compile
\* passes to registry.compute, for each mode it accepts, satisfy the
\* invariants of the settings; a Forward value is passed exactly for the
\* modes Forward, Both and All, a Backward value exactly for Backward, Both
\* and All, a Backward value with the Inverse Compton mode for All; the
\* values differ from the engine's settings in mode, compton_mode and
\* compton_method only; and a call of compile leaves the engine's settings
\* as they were.
C29_ComputeArgsWellFormed ==
    /\ [](\A mode \in CompileModeArgs :
              compile_mode(settings.inner, mode).kind = "Ok"
                  => ComputeArgsWellFormed(compile_mode(settings.inner, mode).value))
    /\ [][CompileStep => settings' = settings]_vars

\* compile("All") has succeeded on an engine whose settings break the
\* invariants (Inverse Compton mode with rejection sampling): the tables of
\* its three calls of registry.compute, and no other, were computed.
C29_Witness ==
    /\ result.kind = "Ok"
    /\ compiled
    /\ ~SettingsInvariants(settings.inner)
    /\ settings.inner.mode = "Backward"
    /\ settings.inner.compton_mode = "Inverse"
    /\ settings.inner.compton_method = "RejectionSampling"
    /\ tables = {TableKey(forward_settings(settings.inner)),
                 TableKey(backward_settings(settings.inner)),
                 TableKey(inverse_settings(settings.inner))}


\* C30: the constructor of a stratified geometry returns a geometry or an
\* error on every argument list, the list of a single interface included: no
\* index into the list leaves 0..n-1 and no index computation underflows,
\* either of which ends the call in a panic; the empty list is rejected with
\* a value error.
C30_NoIndexOutOfRange ==
    (stratified # None /\ stratified[1].built # None)
        => LET args == stratified[1].args
               built == stratified[1].built[1]
           IN  /\ Len(args) = 0 => built = Err("ValueError")
               /\ Len(args) > 0
                      => \/ built.kind = "Ok"
                         \/ built.kind = "Err" /\ built.value # "PanicException"

=============================================================================
